---- MODULE Spec2Model ----
(***************************************************************************)
(* jnkn / junkan: incremental scan of a polyglot repository into a         *)
(* persistent dependency graph, cross-domain stitching and blast radius.   *)
(*                                                                         *)
(* A file's text is a sequence of constructs ("lines"); ids are records    *)
(* [prefix, kind, name] standing for "<prefix>:<kind>.<name>"; confidences *)
(* are integer percentages (100 = 1.0).                                    *)
(***************************************************************************)
EXTENDS Integers, Sequences, FiniteSets, TLC

(***************************************************************************)
(* Bounds of the model                                                     *)
(***************************************************************************)
MaxScans == 2
MaxEdits == 1
MaxStream == 3
MaxEvents == 2
MaxArtifacts == 2
MaxParsed == 2

(***************************************************************************)
(* Names, characters, tokens                                               *)
(***************************************************************************)
NoPath == ""
NoHash == 0

UpperCase == <<"A","B","C","D","E","F","G","H","I","J","K","L","M",
               "N","O","P","Q","R","S","T","U","V","W","X","Y","Z">>
LowerCase == <<"a","b","c","d","e","f","g","h","i","j","k","l","m",
               "n","o","p","q","r","s","t","u","v","w","x","y","z">>

Separators == {"_", "-", ".", "/"}

Chars(name) ==
    CASE name = "THE_VAR" -> <<"T","H","E","_","V","A","R">>
      [] name = "PAYMENT_DB_HOST" ->
            <<"P","A","Y","M","E","N","T","_","D","B","_","H","O","S","T">>
      [] name = "payment_db_host" ->
            <<"p","a","y","m","e","n","t","_","d","b","_","h","o","s","t">>
      [] name = "unrelated_name" ->
            <<"u","n","r","e","l","a","t","e","d","_","n","a","m","e">>
      [] name = "app.py" -> <<"a","p","p",".","p","y">>
      [] name = "main.tf" -> <<"m","a","i","n",".","t","f">>
      [] name = "load" -> <<"l","o","a","d">>
      [] name = "loader" -> <<"l","o","a","d","e","r">>
      [] OTHER -> <<>>

lower(c) ==
    IF \E i \in 1..26 : UpperCase[i] = c
    THEN LowerCase[CHOOSE i \in 1..26 : UpperCase[i] = c]
    ELSE c

RECURSIVE SplitTokens(_, _, _)
SplitTokens(cs, cur, acc) ==
    IF cs = <<>>
    THEN IF Len(cur) >= 2 THEN Append(acc, cur) ELSE acc
    ELSE IF Head(cs) \in Separators
         THEN SplitTokens(Tail(cs), <<>>,
                          IF Len(cur) >= 2 THEN Append(acc, cur) ELSE acc)
         ELSE SplitTokens(Tail(cs), Append(cur, lower(Head(cs))), acc)

tokenize(name) == SplitTokens(Chars(name), <<>>, <<>>)

Range(s) == {s[i] : i \in DOMAIN s}

\* largest p in 0..100 with p/100 <= c / sqrt(a*b)
CosinePercent(c, a, b) ==
    IF a = 0 \/ b = 0 THEN 0
    ELSE CHOOSE p \in 0..100 :
            /\ p * p * a * b <= 10000 * c * c
            /\ (p = 100 \/ (p + 1) * (p + 1) * a * b > 10000 * c * c)

significant_token_overlap(t1, t2, min_length) ==
    LET s1 == {t \in Range(t1) : Len(t) >= min_length}
        s2 == {t \in Range(t2) : Len(t) >= min_length}
        common == s1 \cap s2
    IN  [overlap |-> common,
         score |-> CosinePercent(Cardinality(common),
                                 Cardinality(s1), Cardinality(s2))]

(***************************************************************************)
(* Graph model: ids, nodes, edges                                          *)
(***************************************************************************)
EmptyMeta == [k \in {} |-> 0]

Id(prefix, kind, name) == [prefix |-> prefix, kind |-> kind, name |-> name]
FileId(path) == Id("file", "", path)
EnvId(var) == Id("env", "", var)
InfraId(rtype, name) == Id("infra", rtype, name)

Node(id, name, type, path, language, file_hash, metadata) ==
    [tag |-> "node", id |-> id, name |-> name, type |-> type, path |-> path,
     language |-> language, file_hash |-> file_hash, metadata |-> metadata]

Edge(source_id, target_id, type, confidence, metadata) ==
    [tag |-> "edge", source_id |-> source_id, target_id |-> target_id,
     type |-> type, confidence |-> confidence, metadata |-> metadata]

Triple(e) == <<e.source_id, e.target_id, e.type>>

EmptyGraph == [nodes |-> {}, edges |-> {}]

get_node(g, id) ==
    IF \E n \in g.nodes : n.id = id
    THEN {CHOOSE n \in g.nodes : n.id = id}
    ELSE {}

\* later fields overwrite earlier ones; an absent optional field keeps the
\* earlier value; metadata is shallow-merged
MergeNode(old, new) ==
    [new EXCEPT
        !.path = IF new.path # NoPath THEN new.path ELSE old.path,
        !.language = IF new.language # "" THEN new.language ELSE old.language,
        !.file_hash = IF new.file_hash # NoHash THEN new.file_hash
                      ELSE old.file_hash,
        !.metadata = new.metadata @@ old.metadata]

add_node(g, n) ==
    LET same == {o \in g.nodes : o.id = n.id}
    IN  IF same = {}
        THEN [g EXCEPT !.nodes = @ \cup {n}]
        ELSE [g EXCEPT !.nodes = (@ \ same) \cup
                          {MergeNode(CHOOSE o \in same : TRUE, n)}]

\* a merge that averages the two confidences
MergeEdge_averaged(old, new) ==
    [new EXCEPT !.confidence = (old.confidence + new.confidence) \div 2,
                !.metadata = new.metadata @@ old.metadata]

\* higher confidence wins, a tie shallow-merges the metadata
MergeEdge(old, new) ==
    IF new.confidence > old.confidence THEN new
    ELSE IF new.confidence < old.confidence THEN old
    ELSE [new EXCEPT !.metadata = new.metadata @@ old.metadata]

\* an insertion that never looks for the triple
add_edge_unmerged(g, e) == [g EXCEPT !.edges = @ \cup {e}]

add_edge(g, e) ==
    LET same == {o \in g.edges : Triple(o) = Triple(e)}
    IN  IF same = {}
        THEN [g EXCEPT !.edges = @ \cup {e}]
        ELSE [g EXCEPT !.edges = (@ \ same) \cup
                          {MergeEdge(CHOOSE o \in same : TRUE, e)}]

RECURSIVE ApplyStream(_, _)
ApplyStream(g, results) ==
    IF results = <<>> THEN g
    ELSE ApplyStream(IF Head(results).tag = "node"
                     THEN add_node(g, Head(results))
                     ELSE add_edge(g, Head(results)),
                     Tail(results))

(***************************************************************************)
(* Repository files                                                        *)
(***************************************************************************)
Files == {"a.go", "app.py", "b.go", "main.tf", "notes.txt"}

suffix(path) ==
    CASE path = "app.py" -> ".py"
      [] path \in {"a.go", "b.go"} -> ".go"
      [] path = "main.tf" -> ".tf"
      [] OTHER -> ".txt"

Line(kind, rtype, var) == [kind |-> kind, rtype |-> rtype, var |-> var]
PyCall(var) == Line("call", "", var)
PyAssign(var) == Line("assign", "", var)
GoGetenv(var) == Line("Getenv", "", var)
TfResource(rtype, name) == Line("resource", rtype, name)
TfModuleRef(name) == Line("module_ref", "", name)
TfClose == Line("close", "", "")
TfData(dtype, name) == Line("data", dtype, name)
TfOutput(name) == Line("output", "", name)
\* resource "<type>" "<name>" {}   and   provider "aws" {
TfEmptyResource(rtype, name) == Line("resource_closed", rtype, name)
TfOpen == Line("open", "", "")

Text(lines) == [exists |-> TRUE, text |-> lines]
Absent == [exists |-> FALSE, text |-> <<>>]

Contents(path) ==
    CASE path = "app.py" ->
            {Text(<<>>), Text(<<PyCall("THE_VAR")>>),
             Text(<<PyCall("PAYMENT_DB_HOST")>>),
             Text(<<PyCall("THE_VAR"), PyAssign("PAYMENT_DB_HOST")>>)}
      [] path \in {"a.go", "b.go"} ->
            {Text(<<>>), Text(<<GoGetenv("THE_VAR")>>)}
      [] path = "main.tf" ->
            {Text(<<TfResource("aws_db_instance", "payment_db_host")>>),
             Text(<<TfResource("aws_db_instance", "unrelated_name"),
                    TfModuleRef("net"), TfClose>>)}
      [] OTHER -> {Text(<<>>)}

AllLines ==
    <<PyCall("THE_VAR"), PyCall("PAYMENT_DB_HOST"), PyAssign("PAYMENT_DB_HOST"),
      GoGetenv("THE_VAR"), TfResource("aws_db_instance", "payment_db_host"),
      TfResource("aws_db_instance", "unrelated_name"), TfModuleRef("net"),
      TfClose, Line("import", "", "./utils"), Line("import", "", "react"),
      Line("process.env", "", "THE_VAR")>>

LineCode(l) == CHOOSE i \in DOMAIN AllLines : AllLines[i] = l
HashBase == Len(AllLines) + 1

RECURSIVE Digest(_, _)
Digest(h, lines) ==
    IF lines = <<>> THEN h
    ELSE Digest(h * HashBase + LineCode(Head(lines)), Tail(lines))

\* content hash of the file's bytes; never NoHash
compute_hash(content) == Digest(1, content.text)

(***************************************************************************)
(* Parsers: each yields the stream of nodes and edges of one file          *)
(***************************************************************************)
LowerChars(cs) == [i \in DOMAIN cs |-> lower(cs[i])]

upper_name(name) ==
    CASE name = "payment_db_host" -> "PAYMENT_DB_HOST"
      [] OTHER -> name

EnvSuffixes ==
    {<<"_","u","r","l">>, <<"_","h","o","s","t">>, <<"_","p","o","r","t">>,
     <<"_","k","e","y">>, <<"_","s","e","c","r","e","t">>,
     <<"_","t","o","k","e","n">>, <<"_","p","a","s","s","w","o","r","d">>,
     <<"_","u","s","e","r">>, <<"_","p","a","t","h">>, <<"_","d","i","r">>,
     <<"_","e","n","d","p","o","i","n","t">>, <<"_","u","r","i">>,
     <<"_","d","s","n">>, <<"_","c","o","n","n">>}

EndsWith(cs, suf) ==
    /\ Len(cs) > Len(suf)
    /\ SubSeq(cs, Len(cs) - Len(suf) + 1, Len(cs)) = suf

ENV_LIKE_ASSIGNMENT(line) ==
    /\ line.kind = "assign"
    /\ \E suf \in EnvSuffixes : EndsWith(LowerChars(Chars(line.var)), suf)

RECURSIVE parse_with_regex(_, _, _, _)
parse_with_regex(path, text, i, seen_vars) ==
    IF i > Len(text) THEN <<>>
    ELSE IF text[i].kind \in {"call", "assign"} /\ text[i].var \notin seen_vars
    THEN <<Node(EnvId(text[i].var), text[i].var, "env_var", NoPath, "", NoHash,
                ("source" :> "os.getenv") @@ ("file" :> path) @@ ("line" :> i)),
           Edge(FileId(path), EnvId(text[i].var), "reads", 100,
                ("pattern" :> "os.getenv"))>>
         \o parse_with_regex(path, text, i + 1, seen_vars \cup {text[i].var})
    ELSE parse_with_regex(path, text, i + 1, seen_vars)

RECURSIVE detect_env_like_assignments(_, _, _)
detect_env_like_assignments(path, text, i) ==
    IF i > Len(text) THEN <<>>
    ELSE IF ENV_LIKE_ASSIGNMENT(text[i])
    THEN <<Node(EnvId(upper_name(text[i].var)), upper_name(text[i].var),
                "env_var", NoPath, "", NoHash,
                ("source" :> "heuristic") @@ ("file" :> path) @@ ("line" :> i)
                    @@ ("confidence" :> 70)),
           Edge(FileId(path), EnvId(upper_name(text[i].var)), "reads", 100,
                ("pattern" :> "heuristic") @@ ("confidence" :> 70))>>
         \o detect_env_like_assignments(path, text, i + 1)
    ELSE detect_env_like_assignments(path, text, i + 1)

PythonParser_parse(path, content) ==
    <<Node(FileId(path), path, "code_file", path, "python",
           compute_hash(content), EmptyMeta)>>
    \o parse_with_regex(path, content.text, 1, {})
    \o detect_env_like_assignments(path, content.text, 1)

RECURSIVE GoEnvVarExtractor_extract(_, _, _, _)
GoEnvVarExtractor_extract(path, text, i, seen) ==
    IF i > Len(text) THEN <<>>
    ELSE IF text[i].kind = "Getenv" /\ text[i].var # ""
            /\ text[i].var \notin seen
    THEN <<Node(EnvId(text[i].var), text[i].var, "env_var", path, "", NoHash,
                ("source" :> "os.Getenv") @@ ("line" :> i)
                    @@ ("is_config_key" :> FALSE)),
           Edge(FileId(path), EnvId(text[i].var), "reads", 100,
                ("pattern" :> "os.Getenv"))>>
         \o GoEnvVarExtractor_extract(path, text, i + 1, seen \cup {text[i].var})
    ELSE GoEnvVarExtractor_extract(path, text, i + 1, seen)

GoParser_parse(path, content) ==
    <<Node(FileId(path), path, "code_file", path, "go",
           compute_hash(content), EmptyMeta)>>
    \o GoEnvVarExtractor_extract(path, content.text, 1, {})

extract_references(line, source_id, line_num) ==
    IF line.kind = "module_ref"
    THEN <<Edge(source_id, Id("infra", "module", line.var), "reads", 100,
                ("line" :> line_num))>>
    ELSE <<>>

NoBlock == Id("", "", "")

\* infra:data.<type>.<name>
DataBlockId(data_type, data_name) ==
    Id("infra", IF data_type = "aws_vpc" THEN "data.aws_vpc" ELSE "data",
       data_name)

data_node(data_type, data_name, line_num) ==
    Node(DataBlockId(data_type, data_name), data_name, "infra_resource",
         NoPath, "", NoHash,
         ("terraform_type" :> data_type) @@ ("is_data" :> TRUE)
             @@ ("line" :> line_num))

\* an output typed as the environment variable it feeds
output_node_as_env_var(out_name, line_num) ==
    Node(Id("infra", "output", out_name), out_name, "env_var", NoPath, "",
         NoHash, ("line" :> line_num))

output_node(out_name, line_num) ==
    Node(Id("infra", "output", out_name), out_name, "config_key", NoPath, "",
         NoHash, ("line" :> line_num))

\* the loop over the lines; b is the current block id, depth its brace depth
RECURSIVE TerraformLines(_, _, _, _, _)
TerraformLines(path, text, i, b, depth) ==
    IF i > Len(text) THEN <<>>
    ELSE IF text[i].kind \in {"resource", "resource_closed"}
    THEN <<Node(InfraId(text[i].rtype, text[i].var), text[i].var,
                "infra_resource", NoPath, "", NoHash,
                ("terraform_type" :> text[i].rtype) @@ ("line" :> i)),
           Edge(FileId(path), InfraId(text[i].rtype, text[i].var),
                "provisions", 100, EmptyMeta)>>
         \o TerraformLines(path, text, i + 1,
                           InfraId(text[i].rtype, text[i].var), 1)
    ELSE IF text[i].kind = "data"
    THEN <<data_node(text[i].rtype, text[i].var, i),
           Edge(FileId(path), DataBlockId(text[i].rtype, text[i].var),
                "provisions", 100, EmptyMeta)>>
         \o TerraformLines(path, text, i + 1,
                           DataBlockId(text[i].rtype, text[i].var), 1)
    ELSE IF text[i].kind = "output"
    THEN <<output_node(text[i].var, i),
           Edge(FileId(path), Id("infra", "output", text[i].var),
                "provisions", 100, EmptyMeta)>>
         \o TerraformLines(path, text, i + 1,
                           Id("infra", "output", text[i].var), 1)
    ELSE LET d == depth + (IF text[i].kind = "open" THEN 1 ELSE 0)
                        - (IF text[i].kind = "close" THEN 1 ELSE 0)
         IN  IF d <= 0 /\ b # NoBlock
             THEN TerraformLines(path, text, i + 1, NoBlock, 0)
             ELSE (IF b # NoBlock THEN extract_references(text[i], b, i)
                   ELSE <<>>)
                  \o TerraformLines(path, text, i + 1, b, d)

TerraformParser_parse(path, content) ==
    <<Node(FileId(path), path, "code_file", path, "", NoHash,
           ("language" :> "hcl"))>>
    \o TerraformLines(path, content.text, 1, NoBlock, 0)

supports(path) == suffix(path) \in {".py", ".go", ".tf"}

parse_file(path, content) ==
    CASE suffix(path) = ".py" -> PythonParser_parse(path, content)
      [] suffix(path) = ".go" -> GoParser_parse(path, content)
      [] suffix(path) = ".tf" -> TerraformParser_parse(path, content)
      [] OTHER -> <<>>

(***************************************************************************)
(* Persistent store                                                        *)
(***************************************************************************)
NoMetadata == [p \in {} |-> 0]
EmptyStore == [nodes |-> {}, edges |-> {}, scan_metadata |-> NoMetadata]

load_graph(st) == [nodes |-> st.nodes, edges |-> st.edges]

Placeholder(id) == Node(id, id.name, "unknown", NoPath, "", NoHash, EmptyMeta)

RECURSIVE save_nodes_batch(_, _)
save_nodes_batch(st, ns) ==
    IF ns = <<>> THEN st
    ELSE save_nodes_batch(
            [st EXCEPT !.nodes = add_node(load_graph(st), Head(ns)).nodes],
            Tail(ns))

\* upsert by (source, target, type); a target no node has is materialized
save_edge(st, e) ==
    LET g == add_edge(load_graph(st), e)
    IN  [st EXCEPT
            !.edges = g.edges,
            !.nodes = IF get_node(g, e.target_id) = {}
                      THEN @ \cup {Placeholder(e.target_id)}
                      ELSE @]

RECURSIVE save_edges_batch(_, _)
save_edges_batch(st, es) ==
    IF es = <<>> THEN st
    ELSE save_edges_batch(save_edge(st, Head(es)), Tail(es))

\* a delete that forgets the cascade to incident edges
delete_nodes_by_file_no_cascade(st, path) ==
    LET gone == {n.id : n \in {m \in st.nodes : m.path = path}}
    IN  [st EXCEPT !.nodes = {n \in @ : n.id \notin gone}]

delete_nodes_by_file(st, path) ==
    LET gone == {n.id : n \in {m \in st.nodes : m.path = path}}
    IN  [st EXCEPT
            !.nodes = {n \in @ : n.id \notin gone},
            !.edges = {e \in @ : e.source_id \notin gone
                                 /\ e.target_id \notin gone}]

ScanMetadata(file_path, file_hash, node_count, edge_count) ==
    [file_path |-> file_path, file_hash |-> file_hash,
     node_count |-> node_count, edge_count |-> edge_count]

save_scan_metadata(st, m) ==
    [st EXCEPT !.scan_metadata = (m.file_path :> m) @@ @]

query_descendants(st, id) ==
    LET RECURSIVE Reach(_)
        Reach(seen) ==
            LET next == seen \cup {e.target_id : e \in
                            {x \in st.edges : x.source_id \in seen}}
            IN  IF next = seen THEN seen ELSE Reach(next)
    IN  Reach({id}) \ {id}

(***************************************************************************)
(* Stitcher                                                                *)
(***************************************************************************)
RECURSIVE SetToSeq(_)
SetToSeq(S) ==
    IF S = {} THEN <<>>
    ELSE LET x == CHOOSE y \in S : TRUE IN <<x>> \o SetToSeq(S \ {x})

MIN_TOKEN_LENGTH == 2

\* the rule with the edge drawn from the consumer to the producer
EnvVarToInfraRule_apply_reversed(g, min_confidence) ==
    {Edge(e.id, i.id, "provides",
          significant_token_overlap(tokenize(e.name), tokenize(i.name),
                                    MIN_TOKEN_LENGTH).score,
          ("rule" :> "EnvVarToInfraRule")) :
        <<i, e>> \in
          {<<i, e>> \in {n \in g.nodes : n.type = "infra_resource"}
                        \X {n \in g.nodes : n.type = "env_var"} :
              significant_token_overlap(tokenize(e.name), tokenize(i.name),
                                        MIN_TOKEN_LENGTH).score
                  >= min_confidence}}

EnvVarToInfraRule_apply(g, min_confidence) ==
    {Edge(i.id, e.id, "provides",
          significant_token_overlap(tokenize(e.name), tokenize(i.name),
                                    MIN_TOKEN_LENGTH).score,
          ("rule" :> "EnvVarToInfraRule")) :
        <<i, e>> \in
          {<<i, e>> \in {n \in g.nodes : n.type = "infra_resource"}
                        \X {n \in g.nodes : n.type = "env_var"} :
              significant_token_overlap(tokenize(e.name), tokenize(i.name),
                                        MIN_TOKEN_LENGTH).score
                  >= min_confidence}}

\* a stitcher that forgets the configured threshold
stitch_unfiltered(g, min_confidence) == SetToSeq(EnvVarToInfraRule_apply(g, 0))

stitch(g, min_confidence) == SetToSeq(EnvVarToInfraRule_apply(g, min_confidence))

(***************************************************************************)
(* scan: the incremental scan command, one action per step of the handler  *)
(***************************************************************************)
VARIABLES
    fs,                 \* path -> content of the repository on disk
    storage,            \* the persistent store
    pc,                 \* position of the scan handler
    full,               \* --full flag of the running scan
    existing_metadata,  \* scan metadata read when the scan started
    order,              \* order in which rglob yields the files
    idx,                \* position of the current loop in its sequence
    files_to_scan, files_unchanged, files_skipped,
    all_nodes, all_edges,
    graph,              \* the in-memory DependencyGraph
    scans, edits, completed, failed,   \* counters and a failure flag
    at_start,           \* the store as the running scan found it
    skipped,            \* files the running scan found unchanged
    purged,             \* path -> ids removed by delete_nodes_by_file,
                        \* until the next insertion into the store
    fail_pc,            \* position at which the latest failed scan stopped
    last_edit,          \* the latest edit of the repository
    stream,             \* values handed to the graph so far
    ingested,           \* triple -> highest confidence handed to the store
    queue, visited, nodeId, blastRadiusCache,  \* computeBlastRadius
    request,            \* the input handed to a parser or a command
    response            \* what the parser or the command returned

vars == <<fs, storage, pc, full, existing_metadata, order, idx, files_to_scan,
          files_unchanged, files_skipped, all_nodes, all_edges, graph, scans,
          edits, completed, failed, at_start, skipped, purged, fail_pc,
          last_edit, stream, ingested, queue, visited, nodeId,
          blastRadiusCache, request, response>>

scanVars == <<pc, full, existing_metadata, order, idx, files_to_scan,
              files_unchanged, files_skipped, all_nodes, all_edges, scans,
              completed, failed, at_start, skipped, purged, fail_pc>>
bfsVars == <<queue, visited, nodeId, blastRadiusCache>>
cmdVars == <<request, response>>

DEFAULT_MIN_CONFIDENCE == 50

FileOrder == <<"a.go", "app.py", "b.go", "main.tf", "notes.txt">>
Reverse(s) == [i \in DOMAIN s |-> s[Len(s) + 1 - i]]
Exists(f) == fs[f].exists
rglob(files) ==
    LET sorted == SelectSeq(FileOrder, LAMBDA f : files[f].exists)
    IN  {sorted, Reverse(sorted)}

Resting == {"idle", "done", "failed"}
NoNode == Id("", "", "")
NoRequest == [kind |-> "none"]
NoEdit == [file |-> "", old |-> Absent, new |-> Absent, completed |-> 0]

\* every working tree over the five paths
Trees ==
    {r \in [Files -> UNION {Contents(f) : f \in Files} \cup {Absent}] :
        \A f \in Files : r[f] \in Contents(f) \cup {Absent}}

\* the repositories a first scan may find
Repositories ==
    {r \in Trees :
        /\ \A f \in {"app.py", "main.tf", "notes.txt"} : r[f].exists
        /\ \A f \in {"a.go", "b.go"} : r[f] # Text(<<>>)}

\* the handlers' locals and the history before anything has run
InitLocals ==
    /\ pc = "idle"
    /\ full = FALSE
    /\ existing_metadata = NoMetadata
    /\ order = <<>>
    /\ idx = 1
    /\ files_to_scan = <<>>
    /\ files_unchanged = 0
    /\ files_skipped = 0
    /\ all_nodes = <<>>
    /\ all_edges = <<>>
    /\ scans = 0
    /\ edits = 0
    /\ completed = 0
    /\ failed = FALSE
    /\ at_start = EmptyStore
    /\ skipped = {}
    /\ purged = NoMetadata
    /\ fail_pc = ""
    /\ last_edit = NoEdit
    /\ stream = <<>>
    /\ ingested = NoMetadata
    /\ queue = <<>>
    /\ visited = {}
    /\ nodeId = NoNode
    /\ blastRadiusCache = NoMetadata
    /\ request = NoRequest
    /\ response = NoRequest

InitScan ==
    /\ storage = EmptyStore
    /\ InitLocals

Init ==
    /\ fs \in Repositories
    /\ graph = EmptyGraph
    /\ InitScan

\* the repository is edited between scans
Edit(f, c) ==
    /\ pc \in {"done", "failed"}
    /\ edits < MaxEdits
    /\ supports(f)
    /\ c # fs[f]
    /\ fs' = [fs EXCEPT ![f] = c]
    /\ edits' = edits + 1
    /\ last_edit' = [file |-> f, old |-> fs[f], new |-> c,
                     completed |-> completed]
    /\ UNCHANGED <<storage, scanVars, graph, stream, ingested, bfsVars, cmdVars>>

ScanStart(fl, ord) ==
    /\ pc \in Resting
    /\ scans < MaxScans
    /\ scans' = scans + 1
    /\ pc' = "walk"
    /\ full' = fl
    /\ existing_metadata' = IF fl THEN NoMetadata ELSE storage.scan_metadata
    /\ order' = ord
    /\ idx' = 1
    /\ files_to_scan' = <<>>
    /\ files_unchanged' = 0
    /\ files_skipped' = 0
    /\ all_nodes' = <<>>
    /\ all_edges' = <<>>
    /\ graph' = EmptyGraph
    /\ at_start' = storage
    /\ skipped' = {}
    /\ UNCHANGED <<fs, storage, edits, completed, failed, purged, fail_pc,
                   last_edit, stream, ingested, bfsVars, cmdVars>>

\* the handler's locals are gone once it has returned or died
ReturnFromScan ==
    /\ existing_metadata' = NoMetadata
    /\ order' = <<>>
    /\ idx' = 1
    /\ files_to_scan' = <<>>
    /\ files_unchanged' = 0
    /\ files_skipped' = 0
    /\ all_nodes' = <<>>
    /\ all_edges' = <<>>
    /\ graph' = EmptyGraph

Changed(path) ==
    /\ path \in DOMAIN existing_metadata
    /\ ~full
    /\ compute_hash(fs[path]) # existing_metadata[path].file_hash

Unchanged(path) ==
    /\ path \in DOMAIN existing_metadata
    /\ ~full
    /\ compute_hash(fs[path]) = existing_metadata[path].file_hash

\* a changed file's old nodes and edges are deleted
walk_delete(st, path) == delete_nodes_by_file(st, path)

\* one iteration of the loop that collects the files to scan
Walk ==
    /\ pc = "walk"
    /\ idx <= Len(order)
    /\ LET path == order[idx]
       IN  /\ idx' = idx + 1
           /\ IF ~supports(path)
              THEN /\ files_skipped' = files_skipped + 1
                   /\ UNCHANGED <<files_unchanged, files_to_scan, storage,
                                  skipped, purged>>
              ELSE IF Unchanged(path)
              THEN /\ files_unchanged' = files_unchanged + 1
                   /\ skipped' = skipped \cup {path}
                   /\ UNCHANGED <<files_skipped, files_to_scan, storage,
                                  purged>>
              ELSE /\ files_to_scan' = Append(files_to_scan, path)
                   /\ IF Changed(path)
                      THEN /\ storage' = walk_delete(storage, path)
                           /\ purged' = (path :>
                                  {n.id : n \in {m \in storage.nodes :
                                                     m.path = path}})
                                  @@ purged
                      ELSE UNCHANGED <<storage, purged>>
                   /\ UNCHANGED <<files_skipped, files_unchanged, skipped>>
    /\ UNCHANGED <<fs, pc, full, existing_metadata, order, all_nodes,
                   all_edges, graph, scans, edits, completed, failed,
                   at_start, fail_pc, last_edit, stream, ingested, bfsVars, cmdVars>>

WalkEnd ==
    /\ pc = "walk"
    /\ idx > Len(order)
    /\ pc' = "parse"
    /\ UNCHANGED <<fs, storage, full, existing_metadata, order, idx,
                   files_to_scan, files_unchanged, files_skipped, all_nodes,
                   all_edges, graph, scans, edits, completed, failed,
                   at_start, skipped, purged, fail_pc, last_edit, stream,
                   ingested, bfsVars, cmdVars>>

RECURSIVE ParseAll(_, _)
ParseAll(files, paths) ==
    IF paths = <<>> THEN <<>>
    ELSE parse_file(Head(paths), files[Head(paths)])
         \o ParseAll(files, Tail(paths))

IsNode(r) == r.tag = "node"
IsEdge(r) == r.tag = "edge"

\* every file to scan is parsed and its results are collected
Parse ==
    /\ pc = "parse"
    /\ LET results == ParseAll(fs, files_to_scan)
       IN  /\ all_nodes' = SelectSeq(results, IsNode)
           /\ all_edges' = SelectSeq(results, IsEdge)
           /\ graph' = ApplyStream(EmptyGraph, results)
    /\ pc' = "save_nodes"
    /\ UNCHANGED <<fs, storage, full, existing_metadata, order, idx,
                   files_to_scan, files_unchanged, files_skipped, scans,
                   edits, completed, failed, at_start, skipped, purged,
                   fail_pc, last_edit, stream, ingested, bfsVars, cmdVars>>

SaveNodes ==
    /\ pc = "save_nodes"
    /\ storage' = IF all_nodes # <<>> THEN save_nodes_batch(storage, all_nodes)
                  ELSE storage
    /\ purged' = NoMetadata
    /\ pc' = "save_edges"
    /\ UNCHANGED <<fs, full, existing_metadata, order, idx, files_to_scan,
                   files_unchanged, files_skipped, all_nodes, all_edges,
                   graph, scans, edits, completed, failed, at_start, skipped,
                   fail_pc, last_edit, stream, ingested, bfsVars, cmdVars>>

SaveEdges ==
    /\ pc = "save_edges"
    /\ storage' = IF all_edges # <<>> THEN save_edges_batch(storage, all_edges)
                  ELSE storage
    /\ pc' = "save_metadata"
    /\ idx' = 1
    /\ UNCHANGED <<fs, full, existing_metadata, order, files_to_scan,
                   files_unchanged, files_skipped, all_nodes, all_edges,
                   graph, scans, edits, completed, failed, at_start, skipped,
                   purged, fail_pc, last_edit, stream, ingested, bfsVars, cmdVars>>

file_node_counts(path) ==
    Len(SelectSeq(all_nodes, LAMBDA n : n.path = path))

file_edge_counts(path) ==
    Len(SelectSeq(all_edges,
                  LAMBDA e : \E n \in get_node(graph, e.source_id) :
                                 n.path = path))

\* one iteration of the loop that records the scanned files
SaveMetadata ==
    /\ pc = "save_metadata"
    /\ idx <= Len(files_to_scan)
    /\ LET path == files_to_scan[idx]
       IN  storage' = save_scan_metadata(storage,
                          ScanMetadata(path, compute_hash(fs[path]),
                                       file_node_counts(path),
                                       file_edge_counts(path)))
    /\ idx' = idx + 1
    /\ UNCHANGED <<fs, pc, full, existing_metadata, order, files_to_scan,
                   files_unchanged, files_skipped, all_nodes, all_edges,
                   graph, scans, edits, completed, failed, at_start, skipped,
                   purged, fail_pc, last_edit, stream, ingested, bfsVars, cmdVars>>

\* the stitched graph: what the stitcher sees and what the store then holds
StitchGraph(st, g, unchanged) == IF unchanged > 0 THEN load_graph(st) ELSE g

Stitched(st, g, unchanged, min_confidence) ==
    LET new_edges == stitch(StitchGraph(st, g, unchanged), min_confidence)
    IN  IF new_edges # <<>> THEN save_edges_batch(st, new_edges) ELSE st

Stitch ==
    /\ pc = "save_metadata"
    /\ idx > Len(files_to_scan)
    /\ storage' = Stitched(storage, graph, files_unchanged,
                           DEFAULT_MIN_CONFIDENCE)
    /\ pc' = "done"
    /\ completed' = completed + 1
    /\ at_start' = EmptyStore
    /\ ReturnFromScan
    /\ UNCHANGED <<fs, full, scans, edits, failed, skipped, purged, fail_pc,
                   last_edit, stream, ingested, bfsVars, cmdVars>>

\* the scan is cancelled or raises (unreadable file, full disk, interrupt)
Fail ==
    /\ pc \notin Resting
    /\ pc' = "failed"
    /\ fail_pc' = pc
    /\ failed' = TRUE
    /\ skipped' = {}
    /\ ReturnFromScan
    /\ UNCHANGED <<fs, storage, full, scans, edits, completed, at_start,
                   purged, last_edit, stream, ingested, bfsVars, cmdVars>>

Next ==
    \/ \E f \in Files : \E c \in Contents(f) \cup {Absent} : Edit(f, c)
    \/ \E fl \in BOOLEAN : \E ord \in rglob(fs) : ScanStart(fl, ord)
    \/ Walk
    \/ WalkEnd
    \/ Parse
    \/ SaveNodes
    \/ SaveEdges
    \/ SaveMetadata
    \/ Stitch
    \/ Fail

Spec == Init /\ [][Next]_vars

(***************************************************************************)
(* Properties of the scan                                                  *)
(***************************************************************************)
\* the graph a scan of the repository into an empty store produces
FreshScan(files, ord) ==
    LET results == ParseAll(files, SelectSeq(ord, supports))
        st == save_edges_batch(
                  save_nodes_batch(EmptyStore, SelectSeq(results, IsNode)),
                  SelectSeq(results, IsEdge))
    IN  load_graph(Stitched(st, ApplyStream(EmptyGraph, results), 0,
                            DEFAULT_MIN_CONFIDENCE))

EnvRefs(content) ==
    {l.var : l \in {x \in Range(content.text) :
                        x.kind \in {"call", "assign", "Getenv"}}}

HasNode(st, id) == \E n \in st.nodes : n.id = id
HasEdge(st, e) == \E x \in st.edges : Triple(x) = Triple(e)
Incident(st, id) == {e \in st.edges : e.source_id = id \/ e.target_id = id}

\* the repository has not been edited since the last scan completed
UpToDate == edits = 0 \/ last_edit.completed < completed

\* an incremental scan has completed after a completed scan, nothing failed
IncrementalDone ==
    /\ pc = "done"
    /\ UpToDate
    /\ ~failed
    /\ ~full
    /\ completed >= 2

\* C1: after scan, edit, incremental scan the store holds exactly the nodes
\* and edges of a fresh scan of the edited repository into an empty store
C1_IncrementalEquivalence ==
    IncrementalDone =>
        load_graph(storage) \in {FreshScan(fs, o) : o \in rglob(fs)}

\* an existing file A was edited after the previous scan and rescanned
ChangedFileRescanned ==
    /\ IncrementalDone
    /\ edits = 1
    /\ last_edit.completed = completed - 1
    /\ last_edit.old.exists
    /\ last_edit.new.exists

C3_ScanIsAtomic ==
    (pc = "failed" /\ fail_pc \in {"walk", "parse"}) =>
        load_graph(storage) = load_graph(at_start)

\* C4: scan, delete the only reference to THE_VAR from app.py, rescan:
\* no node env:THE_VAR and no edge at env:THE_VAR
C4_RemovedEnvVarGone ==
    (/\ ChangedFileRescanned
     /\ last_edit.file = "app.py"
     /\ "THE_VAR" \in EnvRefs(last_edit.old)
     /\ \A f \in Files : "THE_VAR" \notin EnvRefs(fs[f]))
    =>  /\ ~HasNode(storage, EnvId("THE_VAR"))
        /\ Incident(storage, EnvId("THE_VAR")) = {}

\* C5: after delete_nodes_by_file(p), until something is inserted again, the
\* store has no node with path p and no edge at a node it removed
C5_DeletionCascade ==
    \A p \in DOMAIN purged :
        /\ \A n \in storage.nodes : n.path # p
        /\ \A e \in storage.edges :
              e.source_id \notin purged[p] /\ e.target_id \notin purged[p]

C5_Witness ==
    \E p \in DOMAIN purged :
        /\ \E id \in purged[p] : Incident(at_start, id) # {}
        /\ \E id \in purged[p] : id.prefix = "env"

S1_Repository ==
    /\ fs["app.py"] = Text(<<PyCall("PAYMENT_DB_HOST")>>)
    /\ fs["main.tf"] =
          Text(<<TfResource("aws_db_instance", "payment_db_host")>>)
    /\ ~fs["a.go"].exists
    /\ ~fs["b.go"].exists

C10_BlastOfResource ==
    (pc = "done" /\ scans = 1 /\ UpToDate /\ S1_Repository) =>
        LET infra == InfraId("aws_db_instance", "payment_db_host")
            blast == query_descendants(storage, infra)
        IN  /\ EnvId("PAYMENT_DB_HOST") \in blast
            /\ FileId("app.py") \in blast
            /\ \E e \in storage.edges :
                  /\ e.source_id = infra
                  /\ e.target_id = EnvId("PAYMENT_DB_HOST")
                  /\ e.confidence >= 80

(***************************************************************************)
(* The merger: values reach the graph and the store one at a time          *)
(***************************************************************************)
S1_Infra == InfraId("aws_db_instance", "payment_db_host")

\* what the parsers emit for four files, and matches of lower confidence
GraphInputs ==
    Range(parse_file("a.go", Text(<<GoGetenv("THE_VAR")>>)))
    \cup Range(parse_file("b.go", Text(<<GoGetenv("THE_VAR")>>)))
    \cup Range(parse_file("app.py", Text(<<PyCall("PAYMENT_DB_HOST")>>)))
    \cup Range(parse_file("main.tf",
              Text(<<TfResource("aws_db_instance", "payment_db_host")>>)))
    \cup {Edge(S1_Infra, EnvId("PAYMENT_DB_HOST"), "provides", c,
               ("rule" :> r)) :
            c \in {50, 81}, r \in {"EnvVarToInfraRule", "manual"}}

Highest(ing, e) ==
    IF Triple(e) \in DOMAIN ing
    THEN [ing EXCEPT ![Triple(e)] =
              IF e.confidence > @ THEN e.confidence ELSE @]
    ELSE (Triple(e) :> e.confidence) @@ ing

RECURSIVE HighestAll(_, _)
HighestAll(ing, es) ==
    IF es = <<>> THEN ing
    ELSE HighestAll(Highest(ing, Head(es)), Tail(es))

GraphInit ==
    /\ fs = [f \in Files |-> Absent]
    /\ graph = EmptyGraph
    /\ InitScan

\* one parsed value is added to the graph and saved
Ingest(r) ==
    /\ Len(stream) < MaxStream
    /\ stream' = Append(stream, r)
    /\ graph' = ApplyStream(graph, <<r>>)
    /\ storage' = IF IsNode(r) THEN save_nodes_batch(storage, <<r>>)
                  ELSE save_edges_batch(storage, <<r>>)
    /\ ingested' = IF IsEdge(r) THEN Highest(ingested, r) ELSE ingested
    /\ UNCHANGED <<fs, scanVars, edits, last_edit, bfsVars, cmdVars>>

\* the stitcher's new edges are saved
StitchEdges ==
    LET new_edges == stitch(graph, DEFAULT_MIN_CONFIDENCE)
    IN  /\ new_edges # <<>>
        /\ storage' = Stitched(storage, graph, 0, DEFAULT_MIN_CONFIDENCE)
        /\ ingested' = HighestAll(ingested, new_edges)
        /\ UNCHANGED <<fs, graph, stream, scanVars, edits, last_edit,
                       bfsVars, cmdVars>>

GraphNext ==
    \/ \E r \in GraphInputs : Ingest(r)
    \/ StitchEdges

GraphSpec == GraphInit /\ [][GraphNext]_vars

\* C7: applying a stream twice to an empty graph gives the graph of applying
\* it once: same nodes, same edges, same confidences and metadata
C7_MergeIdempotent ==
    ApplyStream(ApplyStream(EmptyGraph, stream), stream)
        = ApplyStream(EmptyGraph, stream)

\* a stream with one triple at two confidences and one node id at two paths
C7_Witness ==
    /\ graph = ApplyStream(EmptyGraph, stream)
    /\ \E i, j \in DOMAIN stream :
          /\ i < j
          /\ IsEdge(stream[i]) /\ IsEdge(stream[j])
          /\ Triple(stream[i]) = Triple(stream[j])
          /\ stream[i].confidence # stream[j].confidence
    /\ Len(stream) = MaxStream

OneEdgePerTriple(g) ==
    \A e1, e2 \in g.edges : Triple(e1) = Triple(e2) => e1 = e2

\* C8: one edge per (source, target, type), and its confidence is the highest
\* one ever ingested for the triple
C8_HighestConfidenceWins ==
    /\ OneEdgePerTriple(graph)
    /\ OneEdgePerTriple(load_graph(storage))
    /\ \A e \in storage.edges :
          /\ Triple(e) \in DOMAIN ingested
          /\ e.confidence = ingested[Triple(e)]

\* the stitcher's edge and an edge of lower confidence met on one triple
C8_Witness ==
    \E i \in DOMAIN stream :
        /\ IsEdge(stream[i])
        /\ stream[i].confidence < 100
        /\ Triple(stream[i]) \in DOMAIN ingested
        /\ ingested[Triple(stream[i])] = 100
        /\ \E e \in storage.edges : Triple(e) = Triple(stream[i])

(***************************************************************************)
(* computeBlastRadius: the visualizer's breadth-first search               *)
(***************************************************************************)
CodeFile(name) ==
    Node(FileId(name), name, "code_file", NoPath, "", NoHash, EmptyMeta)

\* the graph of test_blast_radius, and the same with a circular import
ChainGraph ==
    [nodes |-> {Node(EnvId("DB_HOST"), "DB_HOST", "env_var", NoPath, "",
                     NoHash, EmptyMeta),
                CodeFile("config.py"), CodeFile("app.py"),
                CodeFile("main.py")},
     edges |-> {Edge(EnvId("DB_HOST"), FileId("config.py"), "provides", 100,
                     EmptyMeta),
                Edge(FileId("config.py"), FileId("app.py"), "imports", 100,
                     EmptyMeta),
                Edge(FileId("app.py"), FileId("main.py"), "imports", 100,
                     EmptyMeta)}]

CycleGraph ==
    [ChainGraph EXCEPT !.edges = @ \cup
        {Edge(FileId("main.py"), FileId("config.py"), "imports", 100,
              EmptyMeta),
         Edge(FileId("app.py"), FileId("app.py"), "imports", 100,
              EmptyMeta)}]

\* the graphs handed to the page: what a scan builds in memory, and the two
\* above
RawData ==
    {ApplyStream(EmptyGraph, ParseAll(r, SelectSeq(o, supports))) :
        <<r, o>> \in UNION {{<<r, o>> : o \in rglob(r)} : r \in Trees}}
    \cup {ChainGraph, CycleGraph}

nodeMap(rawData) == {n.id : n \in rawData.nodes}

outgoingEdges(rawData, id) ==
    SetToSeq({e \in rawData.edges : e.source_id = id})

\* the targets the loop over the outgoing edges pushes
RECURSIVE Pushed(_, _)
Pushed(es, seen) ==
    IF es = <<>> THEN <<>>
    ELSE (IF Head(es).target_id \notin seen THEN <<Head(es).target_id>>
          ELSE <<>>) \o Pushed(Tail(es), seen)

BfsInit ==
    /\ fs = [f \in Files |-> Absent]
    /\ graph \in RawData
    /\ InitScan

\* the search from one more node of nodeMap begins
BfsBegin(n) ==
    /\ nodeId = NoNode
    /\ n \notin DOMAIN blastRadiusCache
    /\ nodeId' = n
    /\ visited' = {}
    /\ queue' = <<n>>
    /\ UNCHANGED <<fs, storage, graph, scanVars, edits, last_edit, stream,
                   ingested, blastRadiusCache,
                   cmdVars>>

\* one iteration of the while loop
BfsStep ==
    /\ nodeId # NoNode
    /\ queue # <<>>
    /\ LET current == Head(queue)
       IN  IF current \in visited
           THEN /\ queue' = Tail(queue)
                /\ UNCHANGED visited
           ELSE /\ visited' = visited \cup {current}
                /\ queue' = Tail(queue)
                       \o Pushed(outgoingEdges(graph, current),
                                 visited \cup {current})
    /\ UNCHANGED <<fs, storage, graph, scanVars, edits, last_edit, stream,
                   ingested, nodeId, blastRadiusCache,
                   cmdVars>>

\* the queue is empty: the count is cached
BfsEnd ==
    /\ nodeId # NoNode
    /\ queue = <<>>
    /\ blastRadiusCache' =
          (nodeId :> Cardinality(visited) - 1) @@ blastRadiusCache
    /\ nodeId' = NoNode
    /\ visited' = {}
    /\ UNCHANGED <<fs, storage, graph, scanVars, edits, last_edit, stream,
                   ingested, queue,
                   cmdVars>>

BfsNext ==
    \/ \E n \in nodeMap(graph) : BfsBegin(n)
    \/ BfsStep
    \/ BfsEnd

BfsSpec == BfsInit /\ [][BfsNext]_vars

\* C9: the count cached for a node is at most |V| - 1
C9_BlastRadiusBounded ==
    \A n \in DOMAIN blastRadiusCache :
        blastRadiusCache[n] <= Cardinality(graph.nodes) - 1

(***************************************************************************)
(* OpenLineage: events, the job and dataset extractors                     *)
(*                                                                         *)
(* A document is what json.loads makes of the text: malformed, a scalar,   *)
(* an object or a list.  An id "job:<ns>/<name>" is Id("job", ns, name).   *)
(***************************************************************************)
Missing == "<missing>"

Malformed == [kind |-> "malformed"]
JsonScalar == [kind |-> "scalar"]
JsonList(items) == [kind |-> "list", items |-> items]
Named(namespace, name) ==
    [kind |-> "object", namespace |-> namespace, name |-> name]
Event(eventType, job, inputs, outputs) ==
    [kind |-> "object", eventType |-> eventType, job |-> job,
     inputs |-> inputs, outputs |-> outputs]

get(value, default) == IF value = Missing THEN default ELSE value

\* events = data if list, [data] if dict, else []
events(data) ==
    IF data.kind = "list" THEN data.items
    ELSE IF data.kind = "object" THEN <<data>>
    ELSE <<>>

\* what a generator has yielded, the ids it has marked, whether it raised
Yielded(out, seen, raised) == [out |-> out, seen |-> seen, raised |-> raised]
After(out, rest) == [rest EXCEPT !.out = out \o @]

JobId(job) == Id("job", get(job.namespace, "default"), job.name)
DataId(dataset) == Id("data", get(dataset.namespace, "default"), dataset.name)

RECURSIVE JobExtractor_extract(_, _, _, _)
JobExtractor_extract(path, evs, i, seen) ==
    IF i > Len(evs) THEN Yielded(<<>>, seen, FALSE)
    ELSE IF evs[i].kind # "object" THEN Yielded(<<>>, seen, TRUE)
    ELSE IF evs[i].eventType \notin {"COMPLETE", "RUNNING"}
    THEN JobExtractor_extract(path, evs, i + 1, seen)
    ELSE IF evs[i].job.kind # "object" THEN Yielded(<<>>, seen, TRUE)
    ELSE IF evs[i].job.name \in {Missing, ""}
    THEN JobExtractor_extract(path, evs, i + 1, seen)
    ELSE IF JobId(evs[i].job) \in seen
    THEN JobExtractor_extract(path, evs, i + 1, seen)
    ELSE After(<<Node(JobId(evs[i].job), evs[i].job.name, "job", path, "",
                      NoHash,
                      ("namespace" :> get(evs[i].job.namespace, "default"))
                      @@ ("source" :> "openlineage")),
                 Edge(FileId(path), JobId(evs[i].job), "contains", 100,
                      EmptyMeta)>>,
               JobExtractor_extract(path, evs, i + 1,
                                    seen \cup {JobId(evs[i].job)}))

\* the loop over one event's inputs or outputs
RECURSIVE process_datasets(_, _, _, _, _, _)
process_datasets(path, dss, j, job_id, direction, seen) ==
    IF j > Len(dss) THEN Yielded(<<>>, seen, FALSE)
    ELSE IF dss[j].kind # "object" THEN Yielded(<<>>, seen, TRUE)
    ELSE IF dss[j].name \in {Missing, ""}
    THEN process_datasets(path, dss, j + 1, job_id, direction, seen)
    ELSE After(
           (IF DataId(dss[j]) \notin seen
            THEN <<Node(DataId(dss[j]), dss[j].name, "data_asset", path, "",
                        NoHash,
                        ("namespace" :> get(dss[j].namespace, "default"))
                        @@ ("source" :> "openlineage"))>>
            ELSE <<>>)
           \o <<Edge(job_id, DataId(dss[j]),
                     IF direction = "input" THEN "reads" ELSE "writes",
                     100, ("source" :> "openlineage"))>>,
           process_datasets(path, dss, j + 1, job_id, direction,
                            seen \cup {DataId(dss[j])}))

RECURSIVE DatasetExtractor_extract(_, _, _, _)
DatasetExtractor_extract(path, evs, i, seen) ==
    IF i > Len(evs) THEN Yielded(<<>>, seen, FALSE)
    ELSE IF evs[i].kind # "object" THEN Yielded(<<>>, seen, TRUE)
    ELSE IF evs[i].eventType \notin {"COMPLETE", "RUNNING"}
    THEN DatasetExtractor_extract(path, evs, i + 1, seen)
    ELSE IF evs[i].job.kind # "object" THEN Yielded(<<>>, seen, TRUE)
    ELSE IF evs[i].job.name \in {Missing, ""}
    THEN DatasetExtractor_extract(path, evs, i + 1, seen)
    ELSE LET ins == process_datasets(path, evs[i].inputs, 1,
                                     JobId(evs[i].job), "input", seen)
             outs == process_datasets(path, evs[i].outputs, 1,
                                      JobId(evs[i].job), "output", ins.seen)
         IN  IF ins.raised THEN ins
             ELSE IF outs.raised THEN After(ins.out, outs)
             ELSE After(ins.out \o outs.out,
                        DatasetExtractor_extract(path, evs, i + 1,
                                                 outs.seen))

\* '"namespace"' in ctx.text: some job or dataset carries the key
HasNamespaceKey(data) ==
    \E ev \in Range(events(data)) :
        /\ ev.kind = "object"
        /\ \/ ev.job.kind = "object" /\ ev.job.namespace # Missing
           \/ \E d \in Range(ev.inputs) \cup Range(ev.outputs) :
                 d.kind = "object" /\ d.namespace # Missing

\* '"job"' in ctx.text and '"namespace"' in ctx.text
JobExtractor_can_extract(data) ==
    /\ \E ev \in Range(events(data)) : ev.kind = "object"
    /\ HasNamespaceKey(data)

\* '"inputs"' in ctx.text or '"outputs"' in ctx.text
DatasetExtractor_can_extract(data) ==
    \E ev \in Range(events(data)) :
        ev.kind = "object" /\ (ev.inputs # <<>> \/ ev.outputs # <<>>)

\* if extractor.can_extract(ctx): yield from extractor.extract(ctx), for the
\* job extractor (priority 100) and the dataset extractor (90), one context
run_openlineage_extractors(path, data) ==
    LET jobs == IF JobExtractor_can_extract(data)
                THEN JobExtractor_extract(path, events(data), 1, {})
                ELSE Yielded(<<>>, {}, FALSE)
        datasets == IF DatasetExtractor_can_extract(data)
                    THEN DatasetExtractor_extract(path, events(data), 1,
                                                  jobs.seen)
                    ELSE Yielded(<<>>, jobs.seen, FALSE)
    IN  IF jobs.raised THEN jobs ELSE After(jobs.out, datasets)

\* the OpenLineage parser: the file node, then the extractors by priority
\* (jobs 100, datasets 90) over one extraction context
OpenLineageParser_parse(path, data) ==
    LET jobs == JobExtractor_extract(path, events(data), 1, {})
        datasets == DatasetExtractor_extract(path, events(data), 1, jobs.seen)
    IN  <<Node(FileId(path), path, "code_file", path, "json", NoHash,
               EmptyMeta)>>
        \o jobs.out \o datasets.out

\* reverse reachability, the start excluded
upstream(g, id) ==
    LET RECURSIVE Back(_)
        Back(seen) ==
            LET next == seen \cup {e.source_id : e \in
                            {x \in g.edges : x.target_id \in seen}}
            IN  IF next = seen THEN seen ELSE Back(next)
    IN  Back({id}) \ {id}

RawOrders == Named("default", "raw.orders")
CuratedOrders == Named(Missing, "curated.orders")

LineageEvents ==
    {Event(t, j, i, o) :
        t \in {"COMPLETE", "START"},
        j \in {Named("default", "etl"), Named(Missing, "load"),
               Named("default", Missing)},
        i \in {<<>>, <<RawOrders>>, <<RawOrders, CuratedOrders>>},
        o \in {<<>>, <<CuratedOrders>>}}

\* event files: one event, or a list of up to MaxEvents events
LineageDocuments ==
    LineageEvents
    \cup UNION {{JsonList(l) : l \in [1..n -> LineageEvents]} :
                    n \in 1..MaxEvents}

S5_Event ==
    Event("COMPLETE", Named("default", "etl"), <<RawOrders>>,
          <<CuratedOrders>>)

LineageInit ==
    /\ fs = [f \in Files |-> Absent]
    /\ graph = EmptyGraph
    /\ InitScan

\* an event file is parsed into an empty graph
ParseLineage(data) ==
    /\ request = NoRequest
    /\ request' = data
    /\ stream' = OpenLineageParser_parse("events.json", data)
    /\ graph' = ApplyStream(EmptyGraph,
                            OpenLineageParser_parse("events.json", data))
    /\ UNCHANGED <<fs, storage, scanVars, edits, last_edit, ingested,
                   bfsVars, response>>

\* upstream of the curated dataset is asked for
AskUpstream ==
    /\ request # NoRequest
    /\ response = NoRequest
    /\ response' = [kind |-> "ids",
                    ids |-> upstream(graph, DataId(CuratedOrders))]
    /\ UNCHANGED <<fs, storage, graph, scanVars, edits, last_edit, stream,
                   ingested, bfsVars, request>>

LineageNext ==
    \/ \E data \in LineageDocuments : ParseLineage(data)
    \/ AskUpstream

LineageSpec == LineageInit /\ [][LineageNext]_vars

\* C11: job default/etl reads raw.orders and writes curated.orders:
\* upstream of curated.orders holds the job and raw.orders
C11_UpstreamOfCurated ==
    (request = S5_Event /\ response # NoRequest) =>
        /\ JobId(Named("default", "etl")) \in response.ids
        /\ DataId(RawOrders) \in response.ids

(***************************************************************************)
(* blast-radius: the command over the two backends                         *)
(*                                                                         *)
(* An artifact argument is a string, here a sequence of characters in      *)
(* which an id's prefix ("env:") and a resource type are one symbol each.  *)
(***************************************************************************)
IdString(id) ==
    CASE id.prefix = "file" -> <<"file:", "//">> \o Chars(id.name)
      [] id.prefix = "entity" ->
            <<"entity:">> \o Chars(id.kind) \o <<":">> \o Chars(id.name)
      [] id.prefix = "infra" -> <<"infra:", id.kind, ".">> \o Chars(id.name)
      [] id.prefix \in {"data", "job"} ->
            <<IF id.prefix = "data" THEN "data:" ELSE "job:", id.kind, "/">>
            \o Chars(id.name)
      [] id.prefix = "config" ->
            <<"config:", id.kind, ":">> \o Chars(id.name)
      [] OTHER -> <<"env:">> \o Chars(id.name)

startswith(s, prefixes) == s # <<>> /\ s[1] \in prefixes

casefold(s) == [i \in DOMAIN s |-> lower(s[i])]

\* s occurs in t
Contains(t, s) ==
    \E k \in 0..(Len(t) - Len(s)) : \A i \in DOMAIN s : t[k + i] = s[i]

\* the ids of the nodes and of the edges' ends
AllIds(g) ==
    {n.id : n \in g.nodes}
    \cup {e.source_id : e \in g.edges} \cup {e.target_id : e \in g.edges}

\* forward reachability within max_depth hops (-1: unbounded), start excluded
Within(edges, id, max_depth) ==
    LET RECURSIVE Go(_, _)
        Go(seen, d) ==
            LET next == seen \cup {e.target_id : e \in
                            {x \in edges : x.source_id \in seen}}
            IN  IF next = seen \/ (max_depth # -1 /\ d >= max_depth)
                THEN seen
                ELSE Go(next, d + 1)
    IN  Go({id}, 0) \ {id}

\* downstream of the id an artifact string spells; nothing for any other string
downstream(g, artifact, max_depth) ==
    UNION {Within(g.edges, id, max_depth) :
              id \in {x \in AllIds(g) : IdString(x) = artifact}}

\* case-insensitive substring search over name and id, in the nodes' order
find_nodes(nodes, substring) ==
    LET hit(n) == \/ Contains(casefold(IdString(n.id)), casefold(substring))
                  \/ Contains(casefold(Chars(n.name)), casefold(substring))
        ids == [i \in DOMAIN nodes |-> nodes[i]]
    IN  [i \in DOMAIN SelectSeq(ids, hit) |->
            IdString(SelectSeq(ids, hit)[i].id)]

\* a chain of ifs whose else belongs to the last test only
_categorize_fallthrough(artifacts) ==
    [data |-> {a \in artifacts : a.prefix = "data"},
     code |-> {a \in artifacts : a.prefix \in {"file", "job"}},
     config |-> {a \in artifacts : a.prefix = "env"},
     infra |-> {a \in artifacts : a.prefix = "infra"},
     other |-> {a \in artifacts : a.prefix # "infra"}]

_categorize(artifacts) ==
    [data |-> {a \in artifacts : a.prefix = "data"},
     code |-> {a \in artifacts : a.prefix \in {"file", "job"}},
     config |-> {a \in artifacts : a.prefix = "env"},
     infra |-> {a \in artifacts : a.prefix = "infra"},
     other |-> {a \in artifacts :
                   a.prefix \notin {"data", "file", "job", "env", "infra"}}]

sorted(S) == SetToSeq(S)

Result(resolved_artifacts, all_downstream) ==
    [kind |-> "result",
     source_artifacts |-> resolved_artifacts,
     total_impacted_count |-> Cardinality(all_downstream),
     impacted_artifacts |-> sorted(all_downstream),
     breakdown |-> _categorize(all_downstream)]

\* a loop that keeps only the latest artifact's downstream
update_replaced(all_downstream, found) == found

\* all_downstream.update(downstream)
update(all_downstream, found) == all_downstream \cup found

RECURSIVE sqlite_loop(_, _, _, _, _, _)
sqlite_loop(g, artifacts, max_depth, i, resolved_artifacts, all_downstream) ==
    IF i > Len(artifacts) THEN Result(resolved_artifacts, all_downstream)
    ELSE sqlite_loop(g, artifacts, max_depth, i + 1,
                     Append(resolved_artifacts, artifacts[i]),
                     update(all_downstream,
                            downstream(g, artifacts[i], max_depth)))

_run_with_sqlite(st, artifacts, max_depth) ==
    sqlite_loop(load_graph(st), artifacts, max_depth, 1, <<>>, {})

ResolvedPrefixes == {"data:", "file:", "job:", "env:", "infra:"}

RECURSIVE json_loop(_, _, _, _, _, _, _)
json_loop(g, nodes, artifacts, max_depth, i, resolved_artifacts, all_downstream) ==
    IF i > Len(artifacts) THEN Result(resolved_artifacts, all_downstream)
    ELSE LET matches == find_nodes(nodes, artifacts[i])
             partial == ~startswith(artifacts[i], ResolvedPrefixes)
             artifact == IF partial /\ matches # <<>> THEN matches[1]
                         ELSE artifacts[i]
         IN  IF partial /\ matches = <<>>
             THEN json_loop(g, nodes, artifacts, max_depth, i + 1,
                            resolved_artifacts, all_downstream)
             ELSE json_loop(g, nodes, artifacts, max_depth, i + 1,
                            Append(resolved_artifacts, artifact),
                            update(all_downstream,
                                   downstream(g, artifact, max_depth)))

\* nodes: the graph's nodes in the order find_nodes walks them
_run_with_json(st, nodes, artifacts, max_depth) ==
    json_loop(load_graph(st), nodes, artifacts, max_depth, 1, <<>>, {})

\* the functions of app.py, as the Python parser emits them
Entity(path, name) ==
    <<Node(Id("entity", path, name), name, "code_entity", path, "python",
           NoHash, ("entity_type" :> "function")),
      Edge(FileId(path), Id("entity", path, name), "contains", 100,
           EmptyMeta)>>

S1_Tree ==
    [f \in Files |->
        CASE f = "app.py" -> Text(<<PyCall("PAYMENT_DB_HOST")>>)
          [] f = "main.tf" ->
                Text(<<TfResource("aws_db_instance", "payment_db_host")>>)
          [] OTHER -> Absent]

StoreOf(g) == [nodes |-> g.nodes, edges |-> g.edges,
               scan_metadata |-> NoMetadata]

\* the stores the command is run on: the scanned S1 repository, without
\* and with two functions in app.py
BlastStores ==
    LET scanned == StoreOf(FreshScan(S1_Tree, <<"app.py", "main.tf">>))
        defs == Entity("app.py", "load") \o Entity("app.py", "loader")
    IN  {scanned,
         save_edges_batch(save_nodes_batch(scanned, SelectSeq(defs, IsNode)),
                          SelectSeq(defs, IsEdge))}

BlastArguments ==
    {IdString(S1_Infra), IdString(EnvId("PAYMENT_DB_HOST")),
     IdString(EnvId("THE_VAR")), IdString(Id("entity", "app.py", "load")),
     <<"d", "b">>, Chars("app.py"), Chars("main.tf"),
     Chars("unrelated_name")}

NodeOrders(st) == {SetToSeq(st.nodes), Reverse(SetToSeq(st.nodes))}

BlastInit ==
    /\ fs = S1_Tree
    /\ graph = EmptyGraph
    /\ storage \in BlastStores
    /\ InitLocals

\* jnkn blast-radius <artifacts> --db <file> --max-depth <n>
blast_radius(artifacts, db_suffix, max_depth, nodes) ==
    /\ request = NoRequest
    /\ request' = [kind |-> "blast", artifacts |-> artifacts,
                   db_suffix |-> db_suffix, max_depth |-> max_depth]
    /\ response' =
          IF artifacts = <<>> THEN [kind |-> "error"]
          ELSE IF db_suffix = ".db"
          THEN _run_with_sqlite(storage, artifacts, max_depth)
          ELSE _run_with_json(storage, nodes, artifacts, max_depth)
    /\ UNCHANGED <<fs, storage, graph, scanVars, edits, last_edit, stream,
                   ingested, bfsVars>>

BlastNext ==
    \E n \in 0..MaxArtifacts :
        \E artifacts \in [1..n -> BlastArguments] :
            \E db_suffix \in {".db", ".json"} :
                \E max_depth \in {-1, 1} :
                    \E nodes \in NodeOrders(storage) :
                        blast_radius(artifacts, db_suffix, max_depth, nodes)

BlastSpec == BlastInit /\ [][BlastNext]_vars

\* C12: the impacted artifacts are the union of the downstream sets of the
\* source artifacts, listed once each, and the count is the size of that set
C12_BlastIsUnion ==
    (request.kind = "blast" /\ response.kind = "result") =>
        LET impacted == response.impacted_artifacts
        IN  /\ Range(impacted) =
                  UNION {downstream(load_graph(storage), a,
                                    request.max_depth) :
                            a \in Range(response.source_artifacts)}
            /\ \A i, j \in DOMAIN impacted :
                  impacted[i] = impacted[j] => i = j
            /\ response.total_impacted_count = Cardinality(Range(impacted))

\* two artifacts with different, non-empty downstream sets were analysed
C12_Witness ==
    /\ request.kind = "blast"
    /\ response.kind = "result"
    /\ Len(response.source_artifacts) = 2
    /\ \E a, b \in Range(response.source_artifacts) :
          LET da == downstream(load_graph(storage), a, request.max_depth)
              db == downstream(load_graph(storage), b, request.max_depth)
          IN  da \ db # {} /\ db \ da # {}

\* the closed set of id prefixes
FullPrefixes ==
    {"file:", "env:", "infra:", "data:", "job:", "entity:", "config:"}

IsPrefixOf(s, t) == Len(s) <= Len(t) /\ \A i \in DOMAIN s : t[i] = s[i]

\* the ids a substring matches, by id or by name
Candidates(st, s) == Range(find_nodes(SetToSeq(st.nodes), s))

ExactMatches(st, s) ==
    {IdString(n.id) : n \in {m \in st.nodes :
                                IdString(m.id) = s \/ Chars(m.name) = s}}

PrefixMatches(st, s) ==
    {IdString(n.id) : n \in {m \in st.nodes :
                                \/ IsPrefixOf(s, IdString(m.id))
                                \/ IsPrefixOf(s, Chars(m.name))}}

\* C13: a substring is resolved to its exact match, else to its only prefix
\* match; when it matches several ids and neither rule picks one, the
\* command fails with an ambiguity error
C13_AmbiguityReported ==
    (/\ request.kind = "blast"
     /\ request.db_suffix = ".json"
     /\ Len(request.artifacts) = 1
     /\ ~startswith(request.artifacts[1], FullPrefixes)
     /\ Cardinality(Candidates(storage, request.artifacts[1])) > 1)
    =>  LET s == request.artifacts[1]
            exact == ExactMatches(storage, s)
            prefix == PrefixMatches(storage, s)
        IN  IF Cardinality(exact) = 1
            THEN /\ response.kind = "result"
                 /\ Range(response.source_artifacts) = exact
            ELSE IF Cardinality(prefix) = 1
            THEN /\ response.kind = "result"
                 /\ Range(response.source_artifacts) = prefix
            ELSE response.kind = "ambiguous"

\* C14: an argument that is a full id is analysed as exactly that id
C14_FullIdKept ==
    (/\ request.kind = "blast"
     /\ response.kind = "result"
     /\ \A i \in DOMAIN request.artifacts :
           startswith(request.artifacts[i], FullPrefixes))
    =>  response.source_artifacts = request.artifacts

\* C15: the two backends answer the same request alike
C15_BackendsAgree ==
    (request.kind = "blast" /\ response.kind = "result") =>
        /\ response = _run_with_sqlite(storage, request.artifacts,
                                       request.max_depth)
        /\ \A nodes \in NodeOrders(storage) :
              response = _run_with_json(storage, nodes, request.artifacts,
                                        request.max_depth)

(***************************************************************************)
(* Parsers and extractors over one file's bytes                            *)
(*                                                                         *)
(* A JSON file's bytes are a document as above, or bytes that are not      *)
(* valid UTF-8; a JSON scalar is a number.                                 *)
(***************************************************************************)
Undecodable == [kind |-> "undecodable"]
\* a key the object does not have, where the value would be a JSON value
NoKey == [kind |-> "missing"]

Plan(resource_changes) ==
    [kind |-> "object", resource_changes |-> resource_changes]
Change(type, name, address) ==
    [kind |-> "object", type |-> type, name |-> name, address |-> address]

\* a function that returns its list, or raises and returns nothing
Returned(results) == Yielded(results, {}, FALSE)
Raised == Yielded(<<>>, {}, TRUE)

\* the loop over plan["resource_changes"]
RECURSIVE plan_changes(_, _)
plan_changes(changes, i) ==
    IF i > Len(changes) THEN Returned(<<>>)
    ELSE IF changes[i].kind # "object" THEN Raised
    ELSE LET rest == plan_changes(changes, i + 1)
         IN  IF changes[i].type \in {Missing, ""}
                \/ changes[i].name \in {Missing, ""}
             THEN rest
             ELSE IF rest.raised THEN Raised
             ELSE Returned(
                    <<Node(InfraId(changes[i].type, changes[i].name),
                           changes[i].name, "infra_resource", NoPath, "",
                           NoHash,
                           ("terraform_address" :> changes[i].address)
                           @@ ("change_actions" :> <<>>))>>
                    \o rest.out)

\* json.loads of the bytes: only JSONDecodeError is caught; the membership
\* test and the loop take any JSON value
TerraformPlanParser_parse(path, content) ==
    CASE content.kind = "undecodable" -> Raised
      [] content.kind = "malformed" -> Returned(<<>>)
      [] content.kind = "scalar" -> Raised
      [] content.kind = "list" -> Returned(<<>>)
      [] OTHER ->
            IF content.resource_changes = NoKey THEN Returned(<<>>)
            ELSE IF content.resource_changes.kind # "list" THEN Raised
            ELSE plan_changes(content.resource_changes.items, 1)

\* JavaScript and TypeScript sources
JsImport(module) == Line("import", "", module)
JsEnv(var) == Line("process.env", "", var)

js_language(path) == IF path = "api/app.ts" THEN "typescript" ELSE "javascript"

\* "./utils" stays as written, a package goes under node_modules
target_id(module_name) ==
    IF module_name = "./utils" THEN FileId(module_name)
    ELSE Id("file", "node_modules", module_name)

RECURSIVE _extract_env_vars_regex(_, _, _, _)
_extract_env_vars_regex(path, text, i, seen_vars) ==
    IF i > Len(text) THEN <<>>
    ELSE IF text[i].kind = "process.env" /\ text[i].var \notin seen_vars
    THEN <<Node(EnvId(text[i].var), text[i].var, "env_var", NoPath, "",
                NoHash,
                ("source" :> "process.env.") @@ ("file" :> path)
                    @@ ("line" :> i)),
           Edge(FileId(path), EnvId(text[i].var), "reads", 100,
                ("pattern" :> "process.env."))>>
         \o _extract_env_vars_regex(path, text, i + 1,
                                    seen_vars \cup {text[i].var})
    ELSE _extract_env_vars_regex(path, text, i + 1, seen_vars)

RECURSIVE _extract_imports_regex(_, _, _, _)
_extract_imports_regex(path, text, i, seen_imports) ==
    IF i > Len(text) THEN <<>>
    ELSE IF text[i].kind = "import" /\ text[i].var \notin seen_imports
    THEN <<Node(target_id(text[i].var), text[i].var, "unknown", NoPath, "",
                NoHash,
                ("virtual" :> TRUE) @@ ("import_name" :> text[i].var)),
           Edge(FileId(path), target_id(text[i].var), "imports", 100,
                EmptyMeta)>>
         \o _extract_imports_regex(path, text, i + 1,
                                   seen_imports \cup {text[i].var})
    ELSE _extract_imports_regex(path, text, i + 1, seen_imports)

\* the file node, then the environment variables, then the imports
JavaScriptParser_parse(path, content) ==
    <<Node(FileId(path), path, "code_file", path, js_language(path),
           compute_hash(content), EmptyMeta)>>
    \o _extract_env_vars_regex(path, content.text, 1, {})
    \o _extract_imports_regex(path, content.text, 1, {})

(***************************************************************************)
(* Python extractors over one extraction context                           *)
(***************************************************************************)
\* NAME = os.getenv("var"), NAME = "literal", Field(env="var"),
\* Variable.get("var")
PyAssignCall(name, var) == Line("assign_call", name, var)
PyLiteral(name) == Line("literal", "", name)
PyField(var) == Line("Field", "", var)
PyVariableGet(var) == Line("Variable.get", "", var)
PyEnviron(var) == Line("environ[]", "", var)

Extractor(name, priority) == [name |-> name, priority |-> priority]

EXTRACTORS ==
    <<Extractor("stdlib", 100), Extractor("pydantic", 90),
      Extractor("click_typer", 80), Extractor("dotenv", 70),
      Extractor("django", 60), Extractor("airflow", 50),
      Extractor("environs", 40), Extractor("heuristic", 10)>>

\* sorted by the key priority, ascending
get_extractors_ascending ==
    SortSeq(EXTRACTORS, LAMBDA a, b : a.priority < b.priority)

\* sorted by the key -priority
get_extractors ==
    SortSeq(EXTRACTORS, LAMBDA a, b : a.priority > b.priority)

is_valid_env_var_name(name) == name # "bad name"

\* the name an extractor's pattern captures on a line, as a set; the django
\* pattern env(...) also matches inside getenv(...)
captured(extractor, line) ==
    CASE extractor = "os.getenv" /\ line.kind \in {"call", "assign_call"} ->
            {line.var}
      [] extractor = "os.environ[]" /\ line.kind = "environ[]" -> {line.var}
      [] extractor = "pydantic" /\ line.kind = "Field" -> {line.var}
      [] extractor = "django" /\ line.kind \in {"call", "assign_call"} ->
            {line.var}
      [] extractor = "airflow" /\ line.kind = "Variable.get" -> {line.var}
      [] extractor = "heuristic" /\ line.kind = "assign" -> {line.var}
      [] extractor = "heuristic" /\ line.kind = "literal" -> {line.var}
      [] extractor = "heuristic" /\ line.kind = "assign_call" -> {line.rtype}
      [] OTHER -> {}

\* the line holds one of the heuristic's env indicators
env_indicators(line) == line.kind \in {"assign", "assign_call"}

\* the pattern name an extractor records
pattern_name(extractor) ==
    CASE extractor = "pydantic" -> "pydantic_field"
      [] extractor = "airflow" -> "airflow_variable"
      [] OTHER -> extractor

can_extract(extractor, text) ==
    CASE extractor = "stdlib" ->
            \E i \in DOMAIN text :
                text[i].kind \in {"call", "assign_call", "environ[]"}
      [] extractor = "pydantic" ->
            \E i \in DOMAIN text : text[i].kind = "Field"
      [] extractor = "django" ->
            \E i \in DOMAIN text : text[i].kind = "environ[]"
      [] extractor = "environs" ->
            \E i \in DOMAIN text :
                text[i].kind \in {"call", "assign_call", "environ[]"}
      [] extractor = "airflow" ->
            \E i \in DOMAIN text : text[i].kind = "Variable.get"
      [] extractor = "heuristic" -> TRUE
      [] OTHER -> FALSE

create_env_var_node(path, name, line, source) ==
    Node(EnvId(name), name, "env_var", path, "", NoHash,
         ("source" :> source) @@ ("line" :> line))

create_reads_edge(path, target, line, pattern) ==
    Edge(FileId(path), target, "reads", 100,
         ("pattern" :> pattern) @@ ("line" :> line))

\* validate, mark_seen, then the node and the edge
RECURSIVE BaseExtractor_extract(_, _, _, _, _)
BaseExtractor_extract(extractor, path, text, i, seen) ==
    IF i > Len(text) THEN Yielded(<<>>, seen, FALSE)
    ELSE IF captured(extractor, text[i]) = {}
    THEN BaseExtractor_extract(extractor, path, text, i + 1, seen)
    ELSE LET var_name == CHOOSE v \in captured(extractor, text[i]) : TRUE
         IN  IF ~is_valid_env_var_name(var_name) \/ var_name \in seen
             THEN BaseExtractor_extract(extractor, path, text, i + 1, seen)
             ELSE After(<<create_env_var_node(path, var_name, i,
                                              pattern_name(extractor)),
                          create_reads_edge(path, EnvId(var_name), i,
                                            pattern_name(extractor))>>,
                        BaseExtractor_extract(extractor, path, text, i + 1,
                                              seen \cup {var_name}))

\* the patterns are tried one after the other, each over the whole text
ENV_VAR_PATTERNS == <<"os.getenv", "os.environ[]">>

RECURSIVE StdlibExtractor_extract(_, _, _, _, _)
StdlibExtractor_extract(path, text, p, i, seen) ==
    IF p > Len(ENV_VAR_PATTERNS) THEN Yielded(<<>>, seen, FALSE)
    ELSE IF i > Len(text)
    THEN StdlibExtractor_extract(path, text, p + 1, 1, seen)
    ELSE IF captured(ENV_VAR_PATTERNS[p], text[i]) = {}
            \/ ~is_valid_env_var_name(text[i].var)
            \/ text[i].var \in seen
    THEN StdlibExtractor_extract(path, text, p, i + 1, seen)
    ELSE After(<<create_env_var_node(path, text[i].var, i,
                                     ENV_VAR_PATTERNS[p]),
                 create_reads_edge(path, EnvId(text[i].var), i,
                                   ENV_VAR_PATTERNS[p])>>,
               StdlibExtractor_extract(path, text, p, i + 1,
                                       seen \cup {text[i].var}))

\* the name is marked before the indicators are looked for
RECURSIVE HeuristicExtractor_extract(_, _, _, _)
HeuristicExtractor_extract(path, text, i, seen) ==
    IF i > Len(text) THEN Yielded(<<>>, seen, FALSE)
    ELSE IF captured("heuristic", text[i]) = {}
    THEN HeuristicExtractor_extract(path, text, i + 1, seen)
    ELSE LET var_name == CHOOSE v \in captured("heuristic", text[i]) : TRUE
         IN  IF var_name \in seen
             THEN HeuristicExtractor_extract(path, text, i + 1, seen)
             ELSE IF ~env_indicators(text[i])
             THEN HeuristicExtractor_extract(path, text, i + 1,
                                             seen \cup {var_name})
             ELSE After(<<[create_env_var_node(path, var_name, i,
                                               "heuristic")
                              EXCEPT !.metadata = @ @@ ("confidence" :> 70)],
                          create_reads_edge(path, EnvId(var_name), i,
                                            "heuristic")>>,
                        HeuristicExtractor_extract(path, text, i + 1,
                                                   seen \cup {var_name}))

extract(extractor, path, text, seen) ==
    CASE extractor = "stdlib" ->
            StdlibExtractor_extract(path, text, 1, 1, seen)
      [] extractor = "heuristic" ->
            HeuristicExtractor_extract(path, text, 1, seen)
      [] OTHER -> BaseExtractor_extract(extractor, path, text, 1, seen)

\* for extractor in extractors: if can_extract: yield from extract, over one
\* context; ran lists the extractors in the order they ran
RECURSIVE run_extractors(_, _, _, _, _)
run_extractors(extractors, k, path, text, seen) ==
    IF k > Len(extractors)
    THEN [out |-> <<>>, seen |-> seen, raised |-> FALSE, ran |-> <<>>]
    ELSE IF ~can_extract(extractors[k].name, text)
    THEN run_extractors(extractors, k + 1, path, text, seen)
    ELSE LET r == extract(extractors[k].name, path, text, seen)
             rest == run_extractors(extractors, k + 1, path, text, r.seen)
         IN  [rest EXCEPT !.out = r.out \o @,
                          !.ran = <<extractors[k]>> \o @]

PyLines ==
    {PyCall("THE_VAR"), PyCall("PAYMENT_DB_HOST"), PyCall("bad name"),
     PyAssign("PAYMENT_DB_HOST"), PyLiteral("PAYMENT_DB_HOST"),
     PyAssignCall("PAYMENT_DB_HOST", "PAYMENT_DB_HOST"),
     PyAssignCall("PAYMENT_DB_HOST", "THE_VAR"),
     PyField("PAYMENT_DB_HOST"), PyVariableGet("PAYMENT_DB_HOST"),
     PyEnviron("PAYMENT_DB_HOST")}

\* sources of up to two lines, and one of three
PySources ==
    {Text(<<>>)} \cup {Text(<<l>>) : l \in PyLines}
    \cup {Text(<<l, m>>) : l \in {PyAssign("PAYMENT_DB_HOST"),
                                  PyEnviron("PAYMENT_DB_HOST")},
                           m \in PyLines}
    \cup {Text(<<PyLiteral("PAYMENT_DB_HOST"), PyAssign("PAYMENT_DB_HOST"),
                 PyCall("PAYMENT_DB_HOST")>>),
          Text(<<PyLiteral("PAYMENT_DB_HOST"), PyAssign("PAYMENT_DB_HOST")>>)}

(***************************************************************************)
(* JavaScript import extractor and dbt SQL extractor                       *)
(***************************************************************************)
\* import ... from "module": the node of the target, a reads edge and an
\* imports edge; a relative module keeps the path as written
RECURSIVE ImportExtractor_extract(_, _, _, _)
ImportExtractor_extract(path, text, i, seen_imports) ==
    IF i > Len(text) THEN Yielded(<<>>, {}, FALSE)
    ELSE IF text[i].kind = "import" /\ text[i].var \notin seen_imports
    THEN After(<<Node(target_id(text[i].var), text[i].var, "code_file",
                      IF text[i].var = "./utils" THEN "./utils"
                      ELSE "node_modules", "", NoHash,
                      ("virtual" :> TRUE) @@ ("import_type" :> "esm")
                          @@ ("line" :> i)),
                 create_reads_edge(path, target_id(text[i].var), i, "esm"),
                 Edge(FileId(path), target_id(text[i].var), "imports", 100,
                      ("kind" :> "esm") @@ ("line" :> i))>>,
               ImportExtractor_extract(path, text, i + 1,
                                       seen_imports \cup {text[i].var}))
    ELSE ImportExtractor_extract(path, text, i + 1, seen_imports)

\* {{ ref('model') }} and {{ source('src', 'table') }}
SqlRef(model) == Line("ref", "", model)
SqlSource(source_name, table_name) == Line("source", source_name, table_name)

stem(path) ==
    IF path \in {"staging/orders.sql", "marts/orders.sql"} THEN "orders"
    ELSE path

SQLFileExtractor_can_extract(path, text) == text # <<>>

ModelId(model_name) == Id("data", "model", model_name)
SourceId(source_name, table_name) ==
    Id("data", IF source_name = "raw" THEN "source:raw" ELSE "source",
       table_name)

SqlLines(text, kind) == SelectSeq(text, LAMBDA l : l.kind = kind)

\* the model named after the file, then its refs, then its sources
SQLFileExtractor_extract(path, text) ==
    Yielded(
        <<Node(ModelId(stem(path)), stem(path), "data_asset", path, "", NoHash,
               ("resource_type" :> "model") @@ ("from_sql" :> TRUE)),
          Edge(FileId(path), ModelId(stem(path)), "contains", 100, EmptyMeta)>>
        \o [k \in DOMAIN SqlLines(text, "ref") |->
               Edge(ModelId(stem(path)), ModelId(SqlLines(text, "ref")[k].var),
                    "depends_on", 100, ("type" :> "ref"))]
        \o [k \in DOMAIN SqlLines(text, "source") |->
               Edge(ModelId(stem(path)),
                    SourceId(SqlLines(text, "source")[k].rtype,
                             SqlLines(text, "source")[k].var),
                    "reads", 100, ("type" :> "source"))],
        {}, FALSE)

SqlSources ==
    {Text(<<>>), Text(<<SqlRef("customers")>>),
     Text(<<SqlSource("raw", "orders"), SqlRef("customers")>>)}

(***************************************************************************)
(* The parsers and extractors run over files                               *)
(***************************************************************************)
\* event files whose shape the extractors do not expect
ScalarJobEvent == Event("COMPLETE", JsonScalar, <<>>, <<>>)
ScalarInputEvent ==
    Event("COMPLETE", Named("default", "etl"), <<JsonScalar>>, <<>>)

EventDocuments ==
    {Malformed, JsonScalar, S5_Event, JsonList(<<>>), JsonList(<<S5_Event>>),
     JsonList(<<JsonScalar>>), JsonList(<<S5_Event, JsonScalar>>),
     ScalarJobEvent, ScalarInputEvent}

PaymentDbChange ==
    Change("aws_db_instance", "payment_db_host",
           "aws_db_instance.payment_db_host")

PlanDocuments ==
    {Undecodable, Malformed, JsonScalar, JsonList(<<>>), Plan(NoKey),
     Plan(JsonScalar), Plan(JsonList(<<>>)),
     Plan(JsonList(<<PaymentDbChange>>)),
     Plan(JsonList(<<Change(Missing, "payment_db_host", Missing)>>)),
     Plan(JsonList(<<PaymentDbChange, JsonScalar>>))}

JsSources ==
    {Text(<<>>), Text(<<JsImport("./utils")>>), Text(<<JsImport("react")>>),
     Text(<<JsEnv("THE_VAR"), JsImport("./utils")>>)}

\* Terraform sources with a data block, an output and a module reference
TfSources ==
    {Text(<<TfData("aws_vpc", "main"), TfClose>>),
     Text(<<TfOutput("db_host"), TfModuleRef("net"), TfClose>>),
     Text(<<TfResource("aws_db_instance", "payment_db_host"), TfClose,
            TfOutput("db_host"), TfClose>>),
     Text(<<TfEmptyResource("aws_db_instance", "unrelated_name"), TfOpen,
            TfModuleRef("net"), TfClose>>)}

Parsers == {"terraform", "terraform_plan", "javascript"}
Extractors ==
    {"openlineage_datasets", "python_extractors", "js_imports", "dbt_sql",
     "openlineage_extractors"}

\* event files for the two OpenLineage extractors run together
LineageFiles ==
    {S5_Event,
     Event("COMPLETE", Named(Missing, "load"), <<CuratedOrders>>, <<>>),
     JsonList(<<Event("START", Named("default", "etl"), <<RawOrders>>, <<>>),
                Event("RUNNING", Named("default", "etl"), <<>>,
                      <<CuratedOrders>>)>>)}

\* the files each parser or extractor is given
ParserInputs(parser) ==
    CASE parser = "terraform" ->
            {[path |-> "main.tf", content |-> c] :
                c \in Contents("main.tf") \cup TfSources}
      [] parser = "terraform_plan" ->
            {[path |-> "tfplan.json", content |-> c] : c \in PlanDocuments}
      [] parser = "javascript" ->
            {[path |-> p, content |-> c] :
                p \in {"web/app.js", "api/app.ts"}, c \in JsSources}
      [] parser = "openlineage_datasets" ->
            {[path |-> "events.json", content |-> c] : c \in EventDocuments}
      [] parser = "openlineage_extractors" ->
            {[path |-> "events.json", content |-> c] : c \in LineageFiles}
      [] parser = "python_extractors" ->
            {[path |-> "app.py", content |-> c] : c \in PySources}
      [] parser = "js_imports" ->
            {[path |-> p, content |-> Text(<<JsImport(m)>>)] :
                p \in {"web/app.js", "api/app.ts"}, m \in {"./utils", "react"}}
      [] parser = "dbt_sql" ->
            {[path |-> p, content |-> c] :
                p \in {"staging/orders.sql", "marts/orders.sql"},
                c \in SqlSources}

\* one parser or extractor run over one file
run(parser, path, content) ==
    CASE parser = "terraform" -> Returned(TerraformParser_parse(path, content))
      [] parser = "terraform_plan" -> TerraformPlanParser_parse(path, content)
      [] parser = "javascript" ->
            Returned(JavaScriptParser_parse(path, content))
      [] parser = "openlineage_datasets" ->
            DatasetExtractor_extract(path, events(content), 1, {})
      [] parser = "openlineage_extractors" ->
            run_openlineage_extractors(path, content)
      [] parser = "python_extractors" ->
            run_extractors(get_extractors, 1, path, content.text, {})
      [] parser = "js_imports" ->
            ImportExtractor_extract(path, content.text, 1, {})
      [] parser = "dbt_sql" ->
            IF SQLFileExtractor_can_extract(path, content.text)
            THEN SQLFileExtractor_extract(path, content.text)
            ELSE Yielded(<<>>, {}, FALSE)

ParseRequest(parser, path, content) ==
    [kind |-> "parse", parser |-> parser, path |-> path, content |-> content]

ParseInit ==
    /\ fs = [f \in Files |-> Absent]
    /\ graph = EmptyGraph
    /\ InitScan

\* a file is parsed; what a parser yields is stored, nodes first, and a
\* parser that raises contributes nothing
ParseOne(parser, path, content) ==
    /\ Len(order) < MaxParsed
    /\ request' = ParseRequest(parser, path, content)
    /\ response' = run(parser, path, content)
    /\ order' = Append(order, ParseRequest(parser, path, content))
    /\ LET results == IF run(parser, path, content).raised THEN <<>>
                      ELSE run(parser, path, content).out
       IN  /\ stream' = results
           /\ storage' = save_edges_batch(
                            save_nodes_batch(storage,
                                             SelectSeq(results, IsNode)),
                            SelectSeq(results, IsEdge))
    /\ UNCHANGED <<fs, graph, pc, full, existing_metadata, idx, files_to_scan,
                   files_unchanged, files_skipped, all_nodes, all_edges,
                   scans, completed, failed, at_start, skipped, purged,
                   fail_pc, edits, last_edit, ingested, bfsVars>>

ParseNext ==
    \E parser \in Parsers \cup Extractors :
        \E input \in ParserInputs(parser) :
            ParseOne(parser, input.path, input.content)

ParseSpec == ParseInit /\ [][ParseNext]_vars

\* the bytes are not UTF-8 or not JSON
DecodeFails(content) ==
    /\ "kind" \in DOMAIN content
    /\ content.kind \in {"undecodable", "malformed"}

IsFileNode(r, path) ==
    /\ r.tag = "node"
    /\ r.id = FileId(path)
    /\ r.type = "code_file"

\* C16: no parser or extractor raises, whatever the bytes; when the bytes do
\* not decode or parse, a parser yields its file node and nothing else, and
\* an extractor adds nothing to it
C16_NeverRaises ==
    request.kind = "parse" =>
        /\ ~response.raised
        /\ DecodeFails(request.content) =>
              IF request.parser \in Parsers
              THEN /\ Len(response.out) = 1
                   /\ IsFileNode(response.out[1], request.path)
              ELSE response.out = <<>>

\* C17: a parser's stream starts with the file node, which carries the
\* path, the language and the file hash
C17_FileNodeFirst ==
    (request.kind = "parse" /\ request.parser \in Parsers
     /\ ~response.raised) =>
        /\ Len(response.out) >= 1
        /\ IsFileNode(response.out[1], request.path)
        /\ response.out[1].path = request.path
        /\ response.out[1].language # ""
        /\ response.out[1].file_hash # NoHash
        /\ \A i \in 2..Len(response.out) :
              ~IsFileNode(response.out[i], request.path)

\* the extractors that ran on the request's text and match the name
Matchers(name) ==
    {e \in Range(response.ran) :
        \E i \in DOMAIN request.content.text :
            LET line == request.content.text[i]
            IN  CASE e.name = "stdlib" ->
                        \E p \in DOMAIN ENV_VAR_PATTERNS :
                            name \in captured(ENV_VAR_PATTERNS[p], line)
                  [] e.name = "heuristic" ->
                        name \in captured("heuristic", line)
                        /\ env_indicators(line)
                  [] OTHER -> name \in captured(e.name, line)}

Sources(e) ==
    IF e.name = "stdlib" THEN Range(ENV_VAR_PATTERNS)
    ELSE {pattern_name(e.name)}

EnvNodes(out, name) ==
    {i \in DOMAIN out : out[i].tag = "node" /\ out[i].id = EnvId(name)}
ReadsEdges(out, name) ==
    {i \in DOMAIN out : /\ out[i].tag = "edge"
                        /\ out[i].target_id = EnvId(name)
                        /\ out[i].type = "reads"}

EnvNames == {"THE_VAR", "PAYMENT_DB_HOST", "bad name"}

\* C18: the extractors run in strictly descending priority, stdlib (100)
\* first and heuristic (10) last; a name gets at most one env_var node and
\* one reads edge in the file, from the highest-priority extractor that
\* matches it
C18_PriorityOrder ==
    (request.kind = "parse" /\ request.parser = "python_extractors") =>
        /\ \A i, j \in DOMAIN response.ran :
              i < j => response.ran[i].priority > response.ran[j].priority
        /\ response.ran[Len(response.ran)] = Extractor("heuristic", 10)
        /\ \A e \in Range(response.ran) :
              e.name = "stdlib" => response.ran[1] = Extractor("stdlib", 100)
        /\ \A name \in EnvNames :
              /\ Cardinality(EnvNodes(response.out, name)) <= 1
              /\ Cardinality(ReadsEdges(response.out, name)) <= 1
              /\ \A i \in EnvNodes(response.out, name) :
                    \E e \in Matchers(name) :
                        /\ \A f \in Matchers(name) : f.priority <= e.priority
                        /\ response.out[i].metadata["source"] \in Sources(e)

\* a name that two extractors match has been extracted
C18_Witness ==
    /\ request.kind = "parse"
    /\ request.parser = "python_extractors"
    /\ Len(response.ran) >= 3
    /\ \E name \in EnvNames :
          /\ Cardinality(Matchers(name)) >= 2
          /\ Cardinality(EnvNodes(response.out, name)) = 1

\* the type goes with the id's prefix
TypeConsistent(n) ==
    /\ n.id.prefix = "env" => n.type = "env_var"
    /\ n.id.prefix = "infra" => n.type \in {"infra_resource", "config_key"}

\* C19 as stated: every stored node, emitted or materialized for a
\* dangling edge target, has the type that goes with its id's prefix
C19_TypeMatchesPrefix ==
    \A n \in storage.nodes : TypeConsistent(n)

\* C19 amended: every node a parser or extractor emits has the type that
\* goes with its id's prefix; a stored node that does not is the unknown
\* placeholder of a dangling edge target
C19_EmittedTypeMatchesPrefix ==
    /\ request.kind = "parse" =>
          \A i \in DOMAIN response.out :
              response.out[i].tag = "node" => TypeConsistent(response.out[i])
    /\ \A n \in storage.nodes :
          \/ TypeConsistent(n)
          \/ /\ n = Placeholder(n.id)
             /\ \E e \in storage.edges : e.target_id = n.id

\* an output, an environment variable and a placeholder are stored
C19_Witness ==
    /\ \E n \in storage.nodes : n.id.prefix = "infra" /\ n.type = "config_key"
    /\ \E n \in storage.nodes : n.id.prefix = "env" /\ n.type = "env_var"
    /\ \E n \in storage.nodes : n.id.prefix = "infra" /\ n.type = "unknown"

dirname(path) ==
    CASE path \in {"web/app.js"} -> "web"
      [] path \in {"api/app.ts"} -> "api"
      [] path = "staging/orders.sql" -> "staging"
      [] path = "marts/orders.sql" -> "marts"
      [] OTHER -> ""

\* the artifact a node emitted from the file at path stands for: a relative
\* import is the module beside the importing file, a model is the SQL file
\* that defines it, anything else is what its id names
Artifact(path, n) ==
    IF "virtual" \in DOMAIN n.metadata /\ n.name = "./utils"
    THEN [dir |-> dirname(path), id |-> n.id]
    ELSE IF "from_sql" \in DOMAIN n.metadata
    THEN [dir |-> dirname(n.path), id |-> n.id]
    ELSE [dir |-> "", id |-> n.id]

\* the nodes a parse request emitted
NodesOf(req) ==
    Range(SelectSeq(run(req.parser, req.path, req.content).out, IsNode))

\* C20: nodes emitted from different files under one id stand for the same
\* artifact
C20_IdsCanonical ==
    \A i, j \in DOMAIN order :
        order[i].path # order[j].path =>
            \A a \in NodesOf(order[i]), b \in NodesOf(order[j]) :
                a.id = b.id =>
                    Artifact(order[i].path, a) = Artifact(order[j].path, b)

(***************************************************************************)
(* Stitching: direction and confidence of the edges                        *)
(***************************************************************************)
NodesOfType(g, type) == {n \in g.nodes : n.type = type}

\* C21: the EnvVarToInfra rule's edges go from an infrastructure node to an
\* env_var node with type provides, never the other way, one edge per pair
C21_InfraProvidesEnv ==
    LET edges == stitch(graph, DEFAULT_MIN_CONFIDENCE)
    IN  /\ \A k \in DOMAIN edges :
              /\ edges[k].type = "provides"
              /\ edges[k].source_id \in
                    {n.id : n \in NodesOfType(graph, "infra_resource")}
              /\ edges[k].target_id \in
                    {n.id : n \in NodesOfType(graph, "env_var")}
              /\ edges[k].source_id \notin
                    {n.id : n \in NodesOfType(graph, "env_var")}
        /\ \A k, l \in DOMAIN edges :
              (/\ edges[k].source_id = edges[l].source_id
               /\ edges[k].target_id = edges[l].target_id) => k = l

\* the rule has matched a pair and its edge is stored
C21_Witness ==
    \E e \in Range(stitch(graph, DEFAULT_MIN_CONFIDENCE)) :
        /\ e \in storage.edges
        /\ e.source_id = S1_Infra
        /\ e.target_id = EnvId("PAYMENT_DB_HOST")

\* values of --min-confidence, in percent; the option takes any float
MinConfidences == {-20, 0, 50, 70, 100, 150}

StitchInit ==
    /\ fs = [f \in Files |-> Absent]
    /\ graph \in RawData
    /\ storage = StoreOf(graph)
    /\ InitLocals

\* the stitching phase of a scan run with --min-confidence
StitchRun(min_confidence) ==
    /\ request = NoRequest
    /\ request' = [kind |-> "stitch", min_confidence |-> min_confidence]
    /\ response' = [kind |-> "edges",
                    edges |-> stitch(graph, min_confidence)]
    /\ storage' = Stitched(storage, graph, 0, min_confidence)
    /\ UNCHANGED <<fs, graph, scanVars, edits, last_edit, stream, ingested,
                   bfsVars>>

StitchNext == \E min_confidence \in MinConfidences : StitchRun(min_confidence)

StitchSpec == StitchInit /\ [][StitchNext]_vars

levels_ordered == <<"LOW", "MEDIUM", "HIGH", "CRITICAL">>
index(seq, x) == CHOOSE i \in DOMAIN seq : seq[i] = x

\* a gate that lets a risk equal to the threshold pass
gate_strict(level, fail_on_risk) == fail_on_risk # Missing /\ index(levels_ordered, level) > index(levels_ordered, fail_on_risk)

\* step 8, the CI gate: TRUE when the command exits with status 1
gate(level, fail_on_risk) == fail_on_risk # Missing /\ index(levels_ordered, level) >= index(levels_ordered, fail_on_risk)

\* .jnkn/jnkn.db is there once a scan has written it
db_path_exists == scans > 0

Exit(status, error, analysed, level, g) ==
    [kind |-> "exit", status |-> status, error |-> error,
     analysed |-> analysed, level |-> level, graph |-> g]

\* the head revisions: app.py and main.tf in every content, nothing else
DiffTrees ==
    {r \in Trees : /\ \A f \in {"app.py", "main.tf"} : r[f].exists
                   /\ \A f \in Files \ {"app.py", "main.tf"} : ~r[f].exists}

DiffInit ==
    /\ fs \in DiffTrees
    /\ storage = EmptyStore
    /\ graph = EmptyGraph
    /\ InitLocals

\* a commit moves the head revision
Commit(f, c) ==
    /\ request = NoRequest
    /\ edits < MaxEdits
    /\ fs[f] # c
    /\ fs' = [fs EXCEPT ![f] = c]
    /\ edits' = edits + 1
    /\ UNCHANGED <<storage, graph, scanVars, last_edit, stream, ingested,
                   bfsVars, cmdVars>>

\* jnkn scan writes the graph of the working tree to .jnkn/jnkn.db
ScanHead(ord) ==
    /\ request = NoRequest
    /\ scans < MaxScans
    /\ storage' = StoreOf(FreshScan(fs, ord))
    /\ scans' = scans + 1
    /\ UNCHANGED <<fs, graph, pc, full, existing_metadata, order, idx,
                   files_to_scan, files_unchanged, files_skipped, all_nodes,
                   all_edges, completed, failed, at_start, skipped, purged,
                   fail_pc, edits, last_edit, stream, ingested, bfsVars,
                   cmdVars>>

\* jnkn diff <base> <head> --fail-on-risk <T>.  git is what
\* get_changed_files does, analysis what the analysers do, level the risk
\* the RiskAnalyzer assesses, ord the order of an on-the-fly scan
diff(changed_files, git, analysis, level, fail_on_risk, ord) ==
    /\ request = NoRequest
    /\ request' = [kind |-> "diff", changed_files |-> changed_files,
                   fail_on_risk |-> fail_on_risk]
    /\ LET g == IF db_path_exists THEN load_graph(storage)
                ELSE FreshScan(fs, ord)
       IN  IF git = "GitError"
           THEN /\ response' = Exit(1, "git", FALSE, Missing, EmptyGraph)
                /\ graph' = graph
           ELSE IF changed_files = {}
           THEN /\ response' = Exit(0, "none", FALSE, Missing, EmptyGraph)
                /\ graph' = graph
           ELSE IF analysis = "raises"
           THEN /\ response' = Exit(1, "exception", FALSE, Missing, g)
                /\ graph' = g
           ELSE /\ response' = Exit(IF gate(level, fail_on_risk) THEN 1
                                    ELSE 0, "none", TRUE, level, g)
                /\ graph' = g
    /\ UNCHANGED <<fs, storage, scanVars, edits, last_edit, stream, ingested,
                   bfsVars>>

DiffNext ==
    \/ \E f \in {"app.py", "main.tf"} : \E c \in Contents(f) : Commit(f, c)
    \/ \E ord \in rglob(fs) : ScanHead(ord)
    \/ \E changed_files \in SUBSET {"app.py", "main.tf"} :
          \E git \in {"ok", "GitError"} :
             \E analysis \in {"ok", "raises"} :
                \E level \in Range(levels_ordered) :
                   \E fail_on_risk \in Range(levels_ordered) \cup {Missing} :
                      \E ord \in rglob(fs) :
                         diff(changed_files, git, analysis, level,
                              fail_on_risk, ord)

DiffSpec == DiffInit /\ [][DiffNext]_vars

AtOrAbove(level, threshold) ==
    \E i, j \in DOMAIN levels_ordered :
        /\ levels_ordered[i] = level
        /\ levels_ordered[j] = threshold
        /\ i >= j

\* C23: diff exits with status 1 exactly when the analysis failed, or a
\* threshold was given and the assessed risk level is at or above it in the
\* order LOW < MEDIUM < HIGH < CRITICAL; in every other case, no changed
\* files and no threshold included, it exits with status 0
C23_ExitStatus ==
    request.kind = "diff" =>
        /\ response.status \in {0, 1}
        /\ response.status = 1 <=>
              \/ response.error # "none"
              \/ /\ response.analysed
                 /\ request.fail_on_risk # Missing
                 /\ AtOrAbove(response.level, request.fail_on_risk)
        /\ request.changed_files = {} /\ response.error = "none" =>
              response.status = 0

\* a risk equal to the threshold stopped the gate
C23_Witness ==
    /\ request.kind = "diff"
    /\ response.analysed
    /\ request.fail_on_risk = "HIGH"
    /\ response.level = "HIGH"
    /\ response.status = 1

\* C24: the graph diff analyses is the graph of the head revision's files
C24_GraphIsCurrent ==
    (request.kind = "diff" /\ response.analysed) =>
        \E ord \in rglob(fs) : response.graph = FreshScan(fs, ord)

\* diff found a stored graph and analysed it
C24_StoredGraphAnalysed ==
    /\ request.kind = "diff"
    /\ response.analysed
    /\ db_path_exists
    /\ response.graph = load_graph(storage)


Categories == {"data", "code", "config", "infra", "other"}

CategoryOf(id) ==
    CASE id.prefix = "data" -> "data"
      [] id.prefix \in {"file", "job"} -> "code"
      [] id.prefix = "env" -> "config"
      [] id.prefix = "infra" -> "infra"
      [] OTHER -> "other"

\* C25: the breakdown partitions the impacted set by id prefix: every
\* impacted id is in exactly one of data, code, config, infra, other, the
\* one of its prefix, no list holds an id that is not impacted, and the
\* sizes of the lists sum to total_impacted_count
C25_BreakdownPartitions ==
    (request.kind = "blast" /\ response.kind = "result") =>
        LET impacted == Range(response.impacted_artifacts)
            b == response.breakdown
        IN  /\ DOMAIN b = Categories
            /\ \A id \in impacted :
                  \A c \in Categories : id \in b[c] <=> c = CategoryOf(id)
            /\ \A c \in Categories : b[c] \subseteq impacted
            /\ Cardinality(b.data) + Cardinality(b.code)
                  + Cardinality(b.config) + Cardinality(b.infra)
                  + Cardinality(b.other) = response.total_impacted_count

\* a result whose impacted ids fall into three categories
C25_Witness ==
    /\ request.kind = "blast"
    /\ response.kind = "result"
    /\ Cardinality({c \in Categories : response.breakdown[c] # {}}) >= 3


(***************************************************************************)
(* Tokens of a name: TokenMatcher and the OpenLineage extractors           *)
(***************************************************************************)
MaxName == 4
NameAlphabet == {"A", "b", "1", "_", "-", ".", "/"}
Names == UNION {[1..n -> NameAlphabet] : n \in 0..MaxName}

\* name.lower()
name_lower(name) == [i \in DOMAIN name |-> lower(name[i])]

\* re.split(r"[_\-./]", name): the fragments between separators, empty
\* ones included
RECURSIVE re_split(_, _, _)
re_split(name, cur, acc) ==
    IF name = <<>> THEN Append(acc, cur)
    ELSE IF Head(name) \in Separators
         THEN re_split(Tail(name), <<>>, Append(acc, cur))
         ELSE re_split(Tail(name), Append(cur, Head(name)), acc)

\* a tokenizer that keeps the short fragments
_tokenize_unfiltered(name) == SelectSeq(re_split(name_lower(name), <<>>, <<>>), LAMBDA t : Len(t) >= 1)

\* [t for t in re.split(r"[_\-./]", name.lower()) if len(t) >= 2]
_tokenize(name) == SelectSeq(re_split(name_lower(name), <<>>, <<>>), LAMBDA t : Len(t) >= 2)

\* TokenMatcher.normalize: lowercase, separators stripped
normalize(name) == SelectSeq(name_lower(name), LAMBDA c : c \notin Separators)

TokenInit ==
    /\ fs = [f \in Files |-> Absent]
    /\ storage = EmptyStore
    /\ graph = EmptyGraph
    /\ InitLocals

\* the extractors' _tokenize, TokenMatcher.tokenize and normalize on a name
Tokenize(name) ==
    /\ request = NoRequest
    /\ request' = [kind |-> "tokenize", name |-> name]
    /\ response' = [kind |-> "tokens", tokens |-> _tokenize(name),
                    matcher |-> SplitTokens(name, <<>>, <<>>),
                    normalized |-> normalize(name)]
    /\ UNCHANGED <<fs, storage, graph, scanVars, edits, last_edit, stream,
                   ingested, bfsVars>>

TokenNext == \E name \in Names : Tokenize(name)

TokenSpec == TokenInit /\ [][TokenNext]_vars

\* the maximal separator-free runs <<first, last>> of a name
Fragments(name) ==
    {r \in (DOMAIN name) \X (DOMAIN name) :
        /\ r[1] <= r[2]
        /\ \A i \in r[1]..r[2] : name[i] \notin Separators
        /\ r[1] = 1 \/ name[r[1] - 1] \in Separators
        /\ r[2] = Len(name) \/ name[r[2] + 1] \in Separators}

\* C26: the tokens of a name are its separator-free fragments of length at
\* least 2, lowercased, in order of appearance; the normalized name is the
\* lowercased name without its separators
C26_TokenizeNormalize ==
    request.kind = "tokenize" =>
        LET name == request.name
            kept == {r \in Fragments(name) : r[2] - r[1] + 1 >= 2}
            nth(k) == CHOOSE r \in kept :
                         Cardinality({q \in kept : q[1] < r[1]}) = k - 1
            letters == {i \in DOMAIN name : name[i] \notin Separators}
            pos(k) == CHOOSE i \in letters :
                         Cardinality({j \in letters : j < i}) = k - 1
        IN  /\ Len(response.tokens) = Cardinality(kept)
            /\ \A k \in DOMAIN response.tokens :
                  response.tokens[k] =
                      [i \in 1..(nth(k)[2] - nth(k)[1] + 1) |->
                          lower(name[nth(k)[1] + i - 1])]
            /\ response.matcher = response.tokens
            /\ Len(response.normalized) = Cardinality(letters)
            /\ \A k \in DOMAIN response.normalized :
                  response.normalized[k] = lower(name[pos(k)])

\* "Ab-b": an upper-case letter is lowered, the one-letter fragment dropped
C26_Witness ==
    /\ request.kind = "tokenize"
    /\ request.name = <<"A", "b", "-", "b">>
    /\ response.tokens = << <<"a", "b">> >>
    /\ response.normalized = <<"a", "b", "b">>


\* the block a header line opens, NoBlock for any other line
BlockOf(line) ==
    CASE line.kind \in {"resource", "resource_closed"} ->
            InfraId(line.rtype, line.var)
      [] line.kind = "data" -> DataBlockId(line.rtype, line.var)
      [] line.kind = "output" -> Id("infra", "output", line.var)
      [] OTHER -> NoBlock

\* the braces a line opens minus those it closes
Braces(line) ==
    CASE line.kind \in {"resource", "data", "output", "open"} -> 1
      [] line.kind = "close" -> -1
      [] OTHER -> 0

RECURSIVE Balance(_, _, _)
Balance(text, h, k) ==
    IF k < h THEN 0 ELSE Balance(text, h, k - 1) + Braces(text[k])

\* line l lies after header h and before the line where h's braces balance
InsideBlock(text, h, l) ==
    /\ h < l
    /\ \A k \in h..l : Balance(text, h, k) > 0

\* C27: TerraformParser.parse emits a reads edge with source block B only
\* for a line after B's header and before the line where B's braces
\* balance, and emits nodes only for the file and for header lines
C27_ReadsInsideBlock ==
    (request.kind = "parse" /\ request.parser = "terraform") =>
        LET text == request.content.text
        IN  \A i \in DOMAIN response.out :
              LET r == response.out[i]
              IN  /\ (IsEdge(r) /\ r.type = "reads") =>
                        \E h \in DOMAIN text :
                            /\ BlockOf(text[h]) = r.source_id
                            /\ InsideBlock(text, h, r.metadata.line)
                  /\ (IsNode(r) /\ ~IsFileNode(r, request.path)) =>
                        /\ r.metadata.line \in DOMAIN text
                        /\ BlockOf(text[r.metadata.line]) = r.id


\* the lines of a source the heuristic qualifies for a name
Qualifying(text, name) ==
    {i \in DOMAIN text : /\ name \in captured("heuristic", text[i])
                         /\ env_indicators(text[i])}

\* C28: a name with a qualifying assignment that no more specific extractor
\* reported is reported by the heuristic, from a qualifying line, as a node
\* with metadata confidence 0.7 and a reads edge; whatever the assignments
\* without an indicator that precede it
C28_HeuristicReports ==
    (request.kind = "parse" /\ request.parser = "python_extractors") =>
        \A name \in EnvNames :
            LET out == response.out
                text == request.content.text
                specific == {i \in EnvNodes(out, name) :
                                out[i].metadata["source"] # "heuristic"}
            IN  /\ (Qualifying(text, name) # {} /\ specific = {}) =>
                      /\ \E i \in EnvNodes(out, name) :
                            /\ out[i].metadata["source"] = "heuristic"
                            /\ out[i].metadata["confidence"] = 70
                            /\ out[i].metadata["line"] \in Qualifying(text, name)
                      /\ \E j \in ReadsEdges(out, name) :
                            /\ out[j].source_id = FileId(request.path)
                            /\ out[j].metadata["pattern"] = "heuristic"
                /\ \A i \in EnvNodes(out, name) :
                      out[i].metadata["source"] = "heuristic" =>
                          out[i].metadata["line"] \in Qualifying(text, name)


\* C29: every reads or writes edge the dataset extractor emits for a file
\* has as its source a job node the job extractor emits for the same file
C29_LineageSourceHasNode ==
    (request.kind = "parse" /\ request.parser = "openlineage_extractors") =>
        \A i \in DOMAIN response.out :
            LET e == response.out[i]
            IN  (IsEdge(e) /\ e.type \in {"reads", "writes"}) =>
                    \E j \in DOMAIN response.out :
                        /\ IsNode(response.out[j])
                        /\ response.out[j].type = "job"
                        /\ response.out[j].id = e.source_id


\* C30: whenever a scan has stopped, normally or by failure, a file whose
\* recorded hash is that of content c has every node and edge of c's parse
\* in the store
C30_MetadataHasContribution ==
    pc \in Resting =>
        \A f \in DOMAIN storage.scan_metadata :
            \A c \in Contents(f) :
                compute_hash(c) = storage.scan_metadata[f].file_hash =>
                    \A r \in Range(parse_file(f, c)) :
                        IF IsNode(r) THEN HasNode(storage, r.id)
                        ELSE HasEdge(storage, r)

====
